---- MODULE Spec2Model ----
(***************************************************************************)
(* A model of the browser widgets of this repository: Accordion,           *)
(* LoopSlider, MouseStalker, TextReveal and ScrollProgressAnimation.       *)
(*                                                                         *)
(* Every widget instance is a record holding the fields of `this` under    *)
(* the names the source gives them, together with the part of the browser  *)
(* that the instance acts on (listeners it registered, animation frames    *)
(* and timeouts it has pending, the DOM nodes it created or styled).       *)
(* Methods and event handlers are operators from records to records; the   *)
(* actions apply them.                                                     *)
(***************************************************************************)
EXTENDS Integers, Sequences, FiniteSets, TLC

VARIABLES
    accDom,   \* the accordion markup: items, their classes and attributes
    acc,      \* the Accordion instance
    ls,       \* the LoopSlider instance and its part of the page
    ms,       \* the MouseStalker instance and its part of the page
    tr,       \* the TextReveal instance and its part of the page
    spa,      \* the ScrollProgressAnimation instance
    thrown,   \* the public method calls that ended in a TypeError
    ls2,      \* a second LoopSlider instance, on a container of its own
    tr2,      \* a second TextReveal instance, on the same page as tr
    pc,       \* the position of the page script main(), or "none"
    calls     \* the steps counted by the life-cycle specification

vars == <<accDom, acc, ls, ms, tr, spa, thrown, ls2, tr2, pc, calls>>

\* JavaScript's null, and the value of a field the constructor never assigned.
NULL == "null"
UNDEF == "undefined"

\* Not-a-number: what JavaScript makes of undefined plus a number.
NAN == "NaN"

Abs(x) == IF x < 0 THEN -x ELSE x

\* Integer division rounding toward zero, as the fixed-point image of a
\* floating-point product or quotient.
TruncDiv(a, b) == IF a >= 0 THEN a \div b ELSE -((-a) \div b)

\* Math.ceil(a / b) for b > 0.
CeilDiv(a, b) == -((-a) \div b)

\* The element of a one-element set.  A sequence of statements is written
\* Only({ g(y) : y \in { f(x) } }): y holds the value that f left, as a
\* local variable does.
Only(S) == CHOOSE x \in S : TRUE

(***************************************************************************)
(* Accordion                                                               *)
(***************************************************************************)

\* Number of accordion items on the page.
MaxItems == 3

ItemIds == 1..MaxItems

\* An item of the markup: the container it lies in, whether it carries the
\* active class, whether it holds a trigger and a content element, and the
\* content's aria-hidden attribute ("none" when there is no content).
AccItem(c, active, hasTrigger, hasContent) ==
    [container |-> c, active |-> active, hasTrigger |-> hasTrigger,
     hasContent |-> hasContent,
     ariaHidden |-> IF hasContent
                    THEN (IF active THEN "false" ELSE "true")
                    ELSE "none"]

\* The pages the accordion is constructed on: nContainers elements match the
\* selector; all items lie in the first container, or the last item lies in
\* a second one.
AccPages ==
    { [nContainers |-> n, items |-> it] :
        n \in {1, 2},
        it \in [ItemIds -> { AccItem(c, a, t, h) :
                    c \in {1, 2}, a \in BOOLEAN, t \in BOOLEAN, h \in BOOLEAN }] }

AccPageOk(p) ==
    /\ \A i \in ItemIds : p.items[i].container <= p.nContainers
    /\ \A i \in ItemIds : i < MaxItems => p.items[i].container = 1

\* The page on which the selector matches nothing.
AccEmptyPage ==
    [nContainers |-> 0,
     items |-> [i \in ItemIds |-> AccItem(1, FALSE, FALSE, FALSE)]]

\* bound is the set of items whose trigger carries a click listener,
\* inits the number of runs of init(), each of which has given every such
\* trigger one more listener, warned records the console warning, and last
\* the item whose trigger was clicked last (0 before any click).
AccNone ==
    [state |-> "none", shouldOpenAll |-> FALSE, bound |-> {}, inits |-> 0,
     warned |-> FALSE, last |-> 0]

\* Accordion.init: a click listener on the trigger of every item that has one.
Accordion_init(page) ==
    { i \in ItemIds : page.items[i].container <= page.nContainers
                      /\ page.items[i].hasTrigger }

\* new Accordion(selector, {shouldOpenAll}).
Accordion_new(page, shouldOpenAll) ==
    IF page.nContainers = 0
    THEN [state |-> "early", shouldOpenAll |-> shouldOpenAll,
          bound |-> {}, inits |-> 0, warned |-> TRUE, last |-> 0]
    ELSE [state |-> "ready", shouldOpenAll |-> shouldOpenAll,
          bound |-> Accordion_init(page), inits |-> 1, warned |-> FALSE,
          last |-> 0]

\* Accordion.open / Accordion.close: aria-hidden of the content, if any.
Accordion_open(item) ==
    IF item.hasContent THEN [item EXCEPT !.ariaHidden = "false"] ELSE item

Accordion_close(item) ==
    IF item.hasContent THEN [item EXCEPT !.ariaHidden = "true"] ELSE item

\* The items of the container of item i (the allItems argument of toggle).
AllItems(items, i) ==
    { j \in ItemIds : items[j].container = items[i].container }

\* A variant of toggle that never closes the other items.
Accordion_toggle_keepOthers(items, i, shouldOpenAll) ==
    IF items[i].active
    THEN [items EXCEPT ![i] = Accordion_close([items[i] EXCEPT !.active = FALSE])]
    ELSE [items EXCEPT ![i] = Accordion_open([items[i] EXCEPT !.active = TRUE])]

\* A variant of toggle that closes the other items whatever the mode.
Accordion_toggle_alwaysClose(items, i, shouldOpenAll) ==
    LET isActive == items[i].active
        closed == [j \in ItemIds |->
                     IF j \in AllItems(items, i) /\ j # i
                     THEN Accordion_close([items[j] EXCEPT !.active = FALSE])
                     ELSE items[j]]
    IN  IF isActive
        THEN [closed EXCEPT ![i] = Accordion_close([closed[i] EXCEPT !.active = FALSE])]
        ELSE [closed EXCEPT ![i] = Accordion_open([closed[i] EXCEPT !.active = TRUE])]

\* Accordion.toggle(item, allItems).
Accordion_toggle(items, i, shouldOpenAll) ==
    LET isActive == items[i].active
        others == IF ~shouldOpenAll /\ ~isActive
                  THEN [j \in ItemIds |->
                          IF j \in AllItems(items, i) /\ j # i
                          THEN Accordion_close([items[j] EXCEPT !.active = FALSE])
                          ELSE items[j]]
                  ELSE items
    IN  IF isActive
        THEN [others EXCEPT ![i] = Accordion_close([others[i] EXCEPT !.active = FALSE])]
        ELSE [others EXCEPT ![i] = Accordion_open([others[i] EXCEPT !.active = TRUE])]

\* A click on the trigger of item i runs its n click listeners in turn, and
\* each of them calls toggle.
RECURSIVE Accordion_click(_, _, _, _)
Accordion_click(items, i, shouldOpenAll, n) ==
    IF n = 0 THEN items
    ELSE Accordion_click(Accordion_toggle(items, i, shouldOpenAll),
                         i, shouldOpenAll, n - 1)

(***************************************************************************)
(* LoopSlider                                                              *)
(*                                                                         *)
(* Time is counted in ticks of 1/FrameRate second and lengths in sixths of *)
(* a pixel, so that the default speed of 50 px/s covers 5 units per tick.  *)
(* Velocities are in units per second.  Fractions (inertia, scrollSpeed)   *)
(* are fixed-point numbers; products are rounded toward zero.              *)
(***************************************************************************)

\* The reference frame rate of the friction term, Math.pow(friction, dt * 60).
FrameRate == 60

\* Pixels to length units.
Px(n) == n * 6

\* The largest time step of a frame, 0.1 s, in ticks.
MaxDt == FrameRate \div 10

\* |velocity| above which inertia keeps running: 10 px/s.
VelocityEps == Px(10)

\* friction ^ n for a friction in thousandths, in thousandths.
RECURSIVE PowMille(_, _)
PowMille(f, n) == IF n = 0 THEN 1000 ELSE TruncDiv(f * PowMille(f, n - 1), 1000)

\* Number.prototype.toFixed(2) of a length, in hundredths of a pixel.
ToFixed2(u) ==
    IF u >= 0 THEN (u * 200 + Px(1)) \div (2 * Px(1))
    ELSE -(((-u) * 200 + Px(1)) \div (2 * Px(1)))

\* The default options of the constructor, merged with the given ones.
\* gap is <<>> for null (the gap comes from CSS) or <<n>> for n pixels.
LoopSliderOptions(effect, reverse, gap) ==
    [speed |-> 50, gap |-> gap, reverse |-> reverse, effect |-> effect,
     scrollSpeed |-> 5,      \* tenths: 0.5
     draggable |-> TRUE,
     inertia |-> 950]        \* thousandths: 0.95

\* The instance before construction, on a page described by dom:
\* present (the selector matches), nChildren, offsetWidth of the first
\* child and the CSS gap (pixels), and window.scrollY (pixels).
\* destroyed records that destroy() has returned; autoStep records the
\* change that step 1 of the last frame made to baseX; drags and moves
\* count the pointer-down events and the pointer moves of a drag handled.
\* hasOptions says that the constructor has assigned this.options (the
\* record below stands for undefined until then); this.slides is assigned
\* exactly when the container is not null.  lastTimeLag says, during a
\* drag, how many ticks this.lastTime is older than the latest mousedown
\* or mousemove on the page: more than 0 when that event went to another
\* slider only.
LoopSliderNone(dom) ==
    [state |-> "none", destroyed |-> FALSE, autoStep |-> 0, drags |-> 0, moves |-> 0,
     container |-> UNDEF, nSlides |-> 0,
     options |-> LoopSliderOptions("draggable", FALSE, <<>>),
     hasOptions |-> FALSE, lastTimeLag |-> 0,
     baseX |-> 0, dragX |-> 0, isDragging |-> FALSE,
     startX |-> 0, startDragX |-> 0,
     animation |-> UNDEF, wrapper |-> UNDEF, resizeTimeout |-> UNDEF,
     smoothedScrollY |-> 0, lastSmoothedScrollY |-> 0,
     velocity |-> 0, lastDragX |-> 0,
     slideWidth |-> 0, totalWidth |-> 0,
     lastFrameTime |-> NULL,
     \* the page
     present |-> dom.present, nChildren |-> dom.nChildren,
     offsetWidth |-> dom.offsetWidth, cssGap |-> dom.cssGap,
     scrollY |-> dom.scrollY,
     rafPending |-> 0, timeoutPending |-> 0, listeners |-> {},
     \* animLive says that the frame this.animation names is still pending;
     \* the other pending frames belong to loops that an earlier call of
     \* startAutoScroll started: loopsFresh of them have not run a frame
     \* yet (their lastFrameTime is null), loopsTimed have
     animLive |-> FALSE, loopsFresh |-> 0, loopsTimed |-> 0,
     transform |-> <<>>, cursor |-> "", clones |-> 0,
     \* the pending resize timeouts, oldest first: the ticks each has left;
     \* timeoutLive says that the one resizeTimeout names is among them
     timeoutLeft |-> <<>>, timeoutLive |-> FALSE,
     \* ticks since the last resize event, and the calls of
     \* updateDimensions by a timeout since then
     sinceResize |-> 0, burstUpdates |-> 0]

\* LoopSlider.getGap, in pixels.
LoopSlider_getGap(s) ==
    IF s.options.gap # <<>> THEN s.options.gap[1] ELSE s.cssGap

\* this.options is undefined, because the constructor returned before
\* assigning it: getGap, setupSlider (at this.slides.forEach when slides is
\* undefined too, else at this.options.gap), updateDimensions (in getGap),
\* startAutoScroll and setupDraggable throw a TypeError, and so does init,
\* which calls setupSlider first.
LoopSlider_throws(s) == ~s.hasOptions

\* LoopSlider.updateDimensions.
LoopSlider_updateDimensions(s) ==
    LET slideWidth == Px(s.offsetWidth + LoopSlider_getGap(s))
        totalWidth == slideWidth * s.nSlides
    IN  IF LoopSlider_throws(s) THEN s
        ELSE
        [s EXCEPT !.slideWidth = slideWidth,
                  !.totalWidth = totalWidth,
                  !.baseX = IF totalWidth > 0
                            THEN TruncDiv(s.baseX * totalWidth, totalWidth)
                            ELSE s.baseX]

\* LoopSlider.setupSlider: a new wrapper, three more sets of clones, the
\* styles; the state it leaves, also when it throws after the assignment
\* of the wrapper.  The wrapper is a new element on every call: no frame
\* has written its style.transform yet.
LoopSlider_setupSlider(s) ==
    IF LoopSlider_throws(s)
    THEN [s EXCEPT !.wrapper = "div", !.transform = <<>>]
    ELSE LoopSlider_updateDimensions(
            [s EXCEPT !.wrapper = "div", !.transform = <<>>,
                      !.clones = @ + 3 * s.nSlides])

\* this.animation = requestAnimationFrame(updatePosition).
RequestFrame(s) ==
    [s EXCEPT !.animation = "raf", !.rafPending = s.rafPending + 1,
              !.animLive = TRUE]

\* this.animation is about to name the frame of another loop: the loop
\* whose pending frame it names now goes on beside it, with the
\* lastFrameTime of its own closure.
LoopSlider_setAside(s) ==
    IF ~s.animLive THEN s
    ELSE [s EXCEPT !.animLive = FALSE,
                   !.loopsFresh = IF s.lastFrameTime = NULL THEN @ + 1 ELSE @,
                   !.loopsTimed = IF s.lastFrameTime = NULL THEN @ ELSE @ + 1]

\* LoopSlider.startAutoScroll, up to the first request of a frame: a new
\* loop, beside the loops started before.
LoopSlider_startAutoScroll(s) ==
    IF LoopSlider_throws(s) THEN s
    ELSE RequestFrame([LoopSlider_setAside(s) EXCEPT
                          !.lastFrameTime = NULL,
                          !.baseX = -s.totalWidth])

DragListeners ==
    {"container.mousedown", "container.touchstart",
     "document.mousemove", "document.touchmove",
     "document.mouseup", "document.touchend"}

\* LoopSlider.setupDraggable.
LoopSlider_setupDraggable(s) ==
    IF LoopSlider_throws(s) THEN s
    ELSE IF ~s.options.draggable
    THEN [s EXCEPT !.cursor = ""]
    ELSE [s EXCEPT !.cursor = "grab",
                   !.listeners = s.listeners \cup DragListeners]

\* LoopSlider.setupResize.
LoopSlider_setupResize(s) ==
    [s EXCEPT !.listeners = s.listeners \cup {"window.resize"}]

\* LoopSlider.init: the state it leaves, also when setupSlider throws.
LoopSlider_init(s) ==
    IF LoopSlider_throws(s) THEN LoopSlider_setupSlider(s)
    ELSE LoopSlider_setupResize(
            LoopSlider_setupDraggable(
                LoopSlider_startAutoScroll(
                    LoopSlider_setupSlider(s))))

\* A variant of the constructor without the guard on the number of slides.
LoopSlider_new_noSlideGuard(s, options) ==
    IF ~s.present
    THEN [s EXCEPT !.state = "early", !.container = NULL]
    ELSE LoopSlider_init(
            [s EXCEPT !.state = IF s.nChildren = 0 THEN "early" ELSE "ready",
                      !.container = "el", !.nSlides = s.nChildren,
                      !.options = options, !.hasOptions = TRUE,
                      !.animation = NULL, !.wrapper = NULL,
                      !.resizeTimeout = NULL])

\* new LoopSlider(selector, options) on the page of s.
LoopSlider_new(s, options) ==
    IF ~s.present
    THEN [s EXCEPT !.state = "early", !.container = NULL]
    ELSE IF s.nChildren = 0
    THEN [s EXCEPT !.state = "early", !.container = "el"]
    ELSE LoopSlider_init(
            [s EXCEPT !.state = "ready", !.container = "el",
                      !.nSlides = s.nChildren,
                      !.options = [options EXCEPT !.draggable =
                                      IF options.effect = "scroll" THEN FALSE
                                      ELSE options.draggable],
                      !.hasOptions = TRUE,
                      !.baseX = 0, !.dragX = 0, !.isDragging = FALSE,
                      !.startX = 0,
                      !.animation = NULL, !.wrapper = NULL,
                      !.resizeTimeout = NULL,
                      !.smoothedScrollY = Px(s.scrollY),
                      !.lastSmoothedScrollY = Px(s.scrollY),
                      !.velocity = 0, !.lastDragX = 0])

\* updatePosition, step 1: automatic scrolling plus the scroll-linked move.
LoopSlider_autoStep(s, dt, scrollMove) ==
    IF s.isDragging THEN [s EXCEPT !.autoStep = 0]
    ELSE LET direction == IF s.options.reverse THEN -1 ELSE 1
             move == TruncDiv(Px(s.options.speed) * dt, FrameRate)
                     + (IF s.options.effect = "scroll" THEN scrollMove ELSE 0)
         IN  [s EXCEPT !.baseX = s.baseX - move * direction,
                       !.autoStep = -(move * direction)]

\* A variant of the inertia step that never absorbs the drag offset.
LoopSlider_inertia_noAbsorb(s, dt) ==
    IF ~s.isDragging /\ Abs(s.velocity) > VelocityEps
    THEN [s EXCEPT !.dragX = s.dragX + TruncDiv(s.velocity * dt, FrameRate),
                   !.velocity = TruncDiv(s.velocity
                                   * PowMille(s.options.inertia, dt), 1000)]
    ELSE s

\* updatePosition, step 2: inertia after a drag, then absorption into baseX.
LoopSlider_inertia(s, dt) ==
    IF ~s.isDragging /\ Abs(s.velocity) > VelocityEps
    THEN [s EXCEPT !.dragX = s.dragX + TruncDiv(s.velocity * dt, FrameRate),
                   !.velocity = TruncDiv(s.velocity
                                   * PowMille(s.options.inertia, dt), 1000)]
    ELSE IF ~s.isDragging /\ s.dragX # 0
    THEN [s EXCEPT !.baseX = s.baseX + s.dragX, !.dragX = 0, !.velocity = 0]
    ELSE s

\* A variant of the loop range correction that moves baseX by one
\* totalWidth at most.
LoopSlider_loopCorrect_once(s) ==
    LET currentX == s.baseX + s.dragX
    IN  IF currentX < -(s.totalWidth * 2)
        THEN [s EXCEPT !.baseX = s.baseX + s.totalWidth]
        ELSE IF currentX > -s.totalWidth
        THEN [s EXCEPT !.baseX = s.baseX - s.totalWidth]
        ELSE s

\* updatePosition, the loop range correction (totalWidth > 0).
LoopSlider_loopCorrect(s) ==
    LET currentX == s.baseX + s.dragX
        loopMin == -(s.totalWidth * 2)
        loopMax == -s.totalWidth
    IN  IF currentX < loopMin
        THEN [s EXCEPT !.baseX = s.baseX + s.totalWidth
                                   * CeilDiv(loopMin - currentX, s.totalWidth)]
        ELSE IF currentX > loopMax
        THEN [s EXCEPT !.baseX = s.baseX - s.totalWidth
                                   * CeilDiv(currentX - loopMax, s.totalWidth)]
        ELSE s

\* updatePosition, the scroll-linked part: smoothedScrollY follows
\* window.scrollY by a tenth of the distance.
LoopSlider_smooth(s) ==
    IF s.options.effect = "scroll"
    THEN LET smoothed == s.smoothedScrollY
                         + TruncDiv(Px(s.scrollY) - s.smoothedScrollY, 10)
         IN  [s EXCEPT !.smoothedScrollY = smoothed,
                       !.lastSmoothedScrollY = smoothed]
    ELSE s

LoopSlider_scrollMove(s) ==
    IF s.options.effect = "scroll"
    THEN LET smoothed == LoopSlider_smooth(s).smoothedScrollY
         IN  TruncDiv((smoothed - s.lastSmoothedScrollY) * s.options.scrollSpeed, 10)
    ELSE 0

\* The frame callback updatePosition(timestamp), k ticks after the last one.
LoopSlider_updatePosition(s, k) ==
    IF s.lastFrameTime = NULL
    THEN RequestFrame([s EXCEPT !.lastFrameTime = "set"])
    ELSE LET dt == IF 10 * k > FrameRate THEN MaxDt ELSE k
         IN  Only({ RequestFrame(
                      [s3 EXCEPT !.transform = <<ToFixed2(s3.baseX + s3.dragX)>>]) :
                    s3 \in { LoopSlider_loopCorrect(s2) :
                    s2 \in { LoopSlider_inertia(s1, dt) :
                    s1 \in { LoopSlider_autoStep(s0, dt, LoopSlider_scrollMove(s)) :
                    s0 \in { LoopSlider_smooth(s) } } } } })

\* The pending frame of a loop that this.animation does not name is about
\* to run; fresh says that the loop has not run a frame yet.  The callback
\* reads the lastFrameTime of its closure and makes this.animation name the
\* frame it requests.
LoopSlider_resume(s, fresh) ==
    [LoopSlider_setAside(s) EXCEPT
        !.loopsFresh = IF fresh THEN @ - 1 ELSE @,
        !.loopsTimed = IF fresh THEN @ ELSE @ - 1,
        !.lastFrameTime = IF fresh THEN NULL ELSE "set"]

\* The delay of the resize timeout, 150 ms, in ticks of 50 ms.
ResizeDelay == 3

\* clearTimeout(this.resizeTimeout), guarded by if (this.resizeTimeout):
\* it removes the timeout the handle names if that is still pending.
ClearResizeTimeout(s) ==
    IF s.resizeTimeout \in {NULL, UNDEF} \/ ~s.timeoutLive THEN s
    ELSE [s EXCEPT !.timeoutLeft = SubSeq(@, 1, Len(@) - 1),
                   !.timeoutPending = @ - 1,
                   !.timeoutLive = FALSE]

\* setTimeout(..., 150) at the end of handleResize.
SetResizeTimeout(s) ==
    [s EXCEPT !.resizeTimeout = "timer",
              !.timeoutLeft = Append(@, ResizeDelay),
              !.timeoutPending = @ + 1,
              !.timeoutLive = TRUE]

\* A variant of handleResize that does not clear the pending timeout.
LoopSlider_handleResize_noClear(s) == SetResizeTimeout(s)

\* LoopSlider.handleResize.
LoopSlider_handleResize(s) == SetResizeTimeout(ClearResizeTimeout(s))

\* The callback of the oldest pending resize timeout.
LoopSlider_resizeTimeout(s) ==
    LoopSlider_updateDimensions(
        [s EXCEPT !.timeoutLeft = Tail(@),
                  !.timeoutPending = @ - 1,
                  !.timeoutLive = @ /\ Len(s.timeoutLeft) > 1])

\* LoopSlider.onPointerDown throws at this.container.style, its last
\* statement, when the container is null.
LoopSlider_onPointerDown_throws(s) == s.container \in {NULL, UNDEF}

\* LoopSlider.onPointerDown with clientX x (pixels): the state it leaves,
\* also when it throws.
LoopSlider_onPointerDown(s, x) ==
    [s EXCEPT !.isDragging = TRUE, !.startX = Px(x), !.startDragX = s.dragX,
              !.velocity = 0, !.lastDragX = s.dragX,
              !.cursor = IF LoopSlider_onPointerDown_throws(s) THEN @
                         ELSE "grabbing",
              !.lastTimeLag = 0,
              !.drags = @ + 1]

\* LoopSlider.onPointerMove with clientX x, kt ticks after the last pointer
\* event.  (this.currentX, which nothing else reads, is left out.)  When
\* the constructor returned before assigning dragX, startDragX is undefined
\* and the sums are not-a-number.
LoopSlider_onPointerMove(s, x, kt) ==
    IF ~s.isDragging THEN s
    ELSE IF ~s.hasOptions
    THEN [s EXCEPT !.dragX = NAN,
                   !.velocity = IF kt > 0 THEN NAN ELSE @,
                   !.lastDragX = NAN,
                   !.lastTimeLag = 0,
                   !.moves = @ + 1]
    ELSE LET dragX == s.startDragX + (Px(x) - s.startX)
             v == TruncDiv((dragX - s.lastDragX) * FrameRate, kt)
         IN  [s EXCEPT !.dragX = dragX,
                       !.velocity = IF kt > 0
                                    THEN TruncDiv(2 * s.velocity + 8 * v, 10)
                                    ELSE s.velocity,
                       !.lastDragX = dragX,
                       !.lastTimeLag = 0,
                       !.moves = @ + 1]

\* LoopSlider.onPointerUp throws at this.container.style, after clearing
\* isDragging, when the container is null.
LoopSlider_onPointerUp_throws(s) ==
    s.isDragging /\ s.container \in {NULL, UNDEF}

\* LoopSlider.onPointerUp: the state it leaves, also when it throws.
LoopSlider_onPointerUp(s) ==
    IF ~s.isDragging THEN s
    ELSE [s EXCEPT !.isDragging = FALSE,
                   !.cursor = IF LoopSlider_onPointerUp_throws(s) THEN @
                              ELSE "grab",
                   !.lastTimeLag = 0]

\* LoopSlider.destroy throws at this.container.removeEventListener when the
\* container is null.
LoopSlider_destroy_throws(s) == s.container \in {NULL, UNDEF}

\* A variant of destroy that leaves the pending frame in place.
LoopSlider_destroy_noCancel(s) ==
    [ClearResizeTimeout(s) EXCEPT !.listeners = {}, !.destroyed = TRUE]

\* LoopSlider.destroy: the state it leaves, also when it throws half way.
\* cancelAnimationFrame(this.animation) cancels the one frame the handle
\* names; the frames of loops started by earlier calls of startAutoScroll
\* stay pending.
LoopSlider_destroy(s) ==
    LET cancels == s.animation \notin {NULL, UNDEF} /\ s.animLive
        s1 == [ClearResizeTimeout(s) EXCEPT
                 !.rafPending = IF cancels THEN @ - 1 ELSE @,
                 !.animLive = IF s.animation \in {NULL, UNDEF} THEN @ ELSE FALSE,
                 !.listeners = @ \ {"window.resize"}]
    IN  IF LoopSlider_destroy_throws(s) THEN s1
        ELSE [s1 EXCEPT !.listeners = @ \ DragListeners, !.destroyed = TRUE]

(***************************************************************************)
(* MouseStalker                                                            *)
(*                                                                         *)
(* Coordinates are in thousandths of a pixel.  The animation frames the    *)
(* instance has pending are the one rafId names (rafLatest) and the ones   *)
(* requested before it (rafOlder).  textJob is the callback of the pending *)
(* text timeout: <<>> when none is pending, <<t>> when it will show t.     *)
(* hoverTimers counts the pending 300 ms callbacks of clearMouseStalker.   *)
(***************************************************************************)

\* Pixels to thousandths.
Cpx(n) == n * 1000

\* config.ease = 0.18 and config.minSpeed = 0.1 px, in thousandths.
MouseStalkerEase == 180
MouseStalkerMinSpeed == 100

\* The elements of the page a pointer event can name: A, B and C match the
\* selector, N does not.  Their data-mouse-stalker values:
StalkerTargets == {"A", "B", "C"}
StalkerElements == StalkerTargets \cup {"N"}
DataMouseStalker(el) ==
    CASE el = "A" -> "VIEW" [] el = "C" -> "OPEN" [] OTHER -> ""

\* The instance before construction.  env: prefers-reduced-motion matches,
\* (pointer: fine) matches, and the centre of the window (pixels).
MouseStalkerNone(env, alwaysVisible, defaultText) ==
    [state |-> "none", destroyed |-> FALSE,
     config |-> [alwaysVisible |-> alwaysVisible, defaultText |-> defaultText],
     isEnabled |-> FALSE,       \* FALSE also stands for undefined
     container |-> UNDEF, textEl |-> UNDEF,
     activeTarget |-> UNDEF, currentText |-> UNDEF,
     pos |-> <<0, 0>>, target |-> <<0, 0>>, hasPos |-> FALSE,
     isVisible |-> FALSE,       \* FALSE also stands for undefined
     rafId |-> UNDEF, isMoving |-> FALSE, textTimer |-> UNDEF,
     \* the page
     reducedMotion |-> env.reducedMotion, pointerFine |-> env.pointerFine,
     centre |-> env.centre,
     rafLatest |-> FALSE, rafOlder |-> 0,
     textJob |-> <<>>, hoverTimers |-> 0,
     listeners |-> {},
     attached |-> FALSE,        \* the stalker element is a child of body
     opacity |-> "", visibility |-> "", transition |-> "", display |-> "",
     transform |-> <<>>,
     textContent |-> "", textOpacity |-> "",
     hasText |-> FALSE, isHover |-> FALSE]

\* this.rafId = requestAnimationFrame(this.update).
StalkerRequestFrame(s) ==
    [s EXCEPT !.rafId = "raf", !.rafLatest = TRUE,
              !.rafOlder = IF s.rafLatest THEN @ + 1 ELSE @]

\* cancelAnimationFrame(this.rafId), guarded by if (this.rafId).
StalkerCancelFrame(s) ==
    IF s.rafId \in {NULL, UNDEF} THEN s ELSE [s EXCEPT !.rafLatest = FALSE]

\* clearTimeout(this.textTimer); this.textTimer = null, guarded by
\* if (this.textTimer).
StalkerCancelText(s) ==
    IF s.textTimer \in {NULL, UNDEF} THEN s
    ELSE [s EXCEPT !.textJob = <<>>, !.textTimer = NULL]

\* MouseStalker.createStalker as far as the evaluation of baseStyle: the old
\* container is removed from the page and this.container is a new div,
\* with no class, no style and no parent.
StalkerNewContainer(s) ==
    [s EXCEPT !.container = "div", !.attached = FALSE,
              !.isHover = FALSE, !.hasText = FALSE,
              !.opacity = "", !.visibility = "", !.transition = "",
              !.display = "", !.transform = <<>>]

\* MouseStalker.createStalker: the state it leaves, also when it throws at
\* this.pos[0] in baseStyle because the constructor never assigned pos.
MouseStalker_createStalker(s) ==
    LET av == s.config.alwaysVisible
        withText == av /\ s.config.defaultText # ""
    IN  IF ~s.hasPos THEN StalkerNewContainer(s)
        ELSE
        [s EXCEPT !.container = "div", !.textEl = "span", !.attached = TRUE,
                  !.transform = <<s.pos[1], s.pos[2]>>,
                  !.opacity = IF av THEN "1" ELSE "0",
                  !.visibility = IF av THEN "visible" ELSE "hidden",
                  !.transition = "opacity 0.3s ease, visibility 0s linear 0.3s",
                  !.display = "", !.isHover = FALSE,
                  !.currentText = IF withText THEN s.config.defaultText ELSE @,
                  !.textContent = IF withText THEN s.config.defaultText ELSE "",
                  !.hasText = withText,
                  !.textOpacity = IF withText THEN "1" ELSE "0"]

StalkerListeners ==
    {"document.pointermove", "document.pointerover", "document.pointerout",
     "document.pointerleave", "window.blur"}

\* MouseStalker.bindEvents / unbindEvents.
MouseStalker_bindEvents(s) ==
    [s EXCEPT !.listeners = @ \cup StalkerListeners]

MouseStalker_unbindEvents(s) ==
    [s EXCEPT !.listeners = @ \ StalkerListeners]

\* MouseStalker.render.
MouseStalker_render(s) == StalkerRequestFrame(s)

\* MouseStalker.init throws at this.pos[0] in createStalker when the
\* constructor returned before assigning pos.
MouseStalker_init_throws(s) == ~s.isEnabled /\ ~s.hasPos

\* MouseStalker.init: the state it leaves, also when createStalker throws.
MouseStalker_init(s) ==
    IF s.isEnabled THEN s
    ELSE IF MouseStalker_init_throws(s) THEN MouseStalker_createStalker(s)
    ELSE MouseStalker_render(
            [MouseStalker_bindEvents(MouseStalker_createStalker(s))
                EXCEPT !.isEnabled = TRUE])

\* new MouseStalker(options).
MouseStalker_new(s) ==
    IF s.reducedMotion \/ ~s.pointerFine
    THEN [s EXCEPT !.state = "early"]
    ELSE MouseStalker_init(
            [s EXCEPT !.state = "ready", !.isEnabled = FALSE,
                      !.container = NULL, !.textEl = NULL,
                      !.activeTarget = NULL, !.currentText = "",
                      !.pos = <<Cpx(s.centre[1]), Cpx(s.centre[2])>>,
                      !.target = <<Cpx(s.centre[1]), Cpx(s.centre[2])>>,
                      !.hasPos = TRUE,
                      !.isVisible = FALSE, !.rafId = NULL,
                      !.isMoving = FALSE, !.textTimer = NULL])

\* The style of a shown and of a hidden stalker.
StalkerShow(s) ==
    [s EXCEPT !.isVisible = TRUE,
              !.transition = "opacity 0.3s ease, visibility 0s",
              !.visibility = "visible", !.opacity = "1"]

StalkerHide(s) ==
    [s EXCEPT !.isVisible = FALSE,
              !.transition = "opacity 0.3s ease, visibility 0s linear 0.3s",
              !.opacity = "0", !.visibility = "hidden"]

\* A variant of handlePointerMove that shows the stalker in every mode.
MouseStalker_handlePointerMove_show(s, pt) ==
    LET s1 == [s EXCEPT !.target = <<pt[1], pt[2]>>]
        s2 == IF ~s1.isVisible /\ s1.isEnabled THEN StalkerShow(s1) ELSE s1
    IN  IF ~s2.isMoving
        THEN StalkerRequestFrame([s2 EXCEPT !.isMoving = TRUE])
        ELSE s2

\* MouseStalker.handlePointerMove throws at this.target[0] when the
\* constructor never assigned target, and at this.container.style when it
\* is to show a stalker whose container is null.
MouseStalker_handlePointerMove_throws(s) ==
    \/ ~s.hasPos
    \/ /\ ~s.isVisible /\ s.isEnabled /\ s.config.alwaysVisible
       /\ s.container \in {NULL, UNDEF}

\* MouseStalker.handlePointerMove with the pointer at pt = <<clientX,
\* clientY>>, in thousandths of a pixel: the state it leaves, also when it
\* throws before or after the assignment to target.
MouseStalker_handlePointerMove(s, pt) ==
    LET s1 == [s EXCEPT !.target = <<pt[1], pt[2]>>]
        s2 == IF ~s1.isVisible /\ s1.isEnabled /\ s1.config.alwaysVisible
              THEN StalkerShow(s1) ELSE s1
    IN  IF ~s.hasPos THEN s
        ELSE IF MouseStalker_handlePointerMove_throws(s)
        THEN [s1 EXCEPT !.isVisible = TRUE]
        ELSE IF ~s2.isMoving
        THEN StalkerRequestFrame([s2 EXCEPT !.isMoving = TRUE])
        ELSE s2

\* MouseStalker.setText throws at this.textEl.style when the text element
\* is null or undefined, unless the text is unchanged and empty.
MouseStalker_setText_throws(s, text) ==
    s.textEl \in {NULL, UNDEF} /\ ~(s.currentText = text /\ text = "")

\* MouseStalker.setText: the state it leaves, also when it throws after
\* clearing the timer.
MouseStalker_setText(s, text) ==
    LET s1 == StalkerCancelText(s)
    IN  IF MouseStalker_setText_throws(s, text) THEN s1
        ELSE IF s1.currentText = text
        THEN (IF text # ""
              THEN [s1 EXCEPT !.textOpacity = "1", !.hasText = TRUE]
              ELSE s1)
        ELSE [s1 EXCEPT !.textOpacity = "0", !.textTimer = "timer",
                        !.textJob = <<text>>]

\* MouseStalker.clearText throws at this.textEl.style when there is a text
\* and the text element is null or undefined.
MouseStalker_clearText_throws(s) ==
    s.currentText \notin {"", UNDEF} /\ s.textEl \in {NULL, UNDEF}

\* MouseStalker.clearText: the state it leaves, also when it throws after
\* clearing the timer.
MouseStalker_clearText(s) ==
    LET s1 == StalkerCancelText(s)
    IN  IF s1.currentText \in {"", UNDEF} \/ MouseStalker_clearText_throws(s)
        THEN s1
        ELSE [s1 EXCEPT !.textOpacity = "0", !.textTimer = "timer",
                        !.textJob = <<"">>]

\* The callback of the timeout of setText and of clearText.
MouseStalker_textTimeout(s) ==
    LET text == s.textJob[1]
    IN  [s EXCEPT !.currentText = text, !.textContent = text,
                  !.hasText = (text # ""),
                  !.textOpacity = IF text # "" THEN "1" ELSE @,
                  !.textTimer = NULL, !.textJob = <<>>]

\* A variant of handlePointerOver that shows defaultText for every element.
MouseStalker_handlePointerOver_default(s, el) ==
    IF el \notin StalkerTargets \/ s.activeTarget = el THEN s
    ELSE LET text == s.config.defaultText
             s1 == [s EXCEPT !.activeTarget = el, !.isHover = TRUE]
         IN  IF ~s1.isVisible
             THEN [StalkerCancelText(StalkerShow(s1)) EXCEPT
                      !.currentText = text, !.textContent = text,
                      !.hasText = (text # ""),
                      !.textOpacity = IF text # "" THEN "1" ELSE "0"]
             ELSE MouseStalker_setText(s1, text)

\* The text handlePointerOver shows for element el.
StalkerTextOf(s, el) ==
    IF DataMouseStalker(el) # "" THEN DataMouseStalker(el)
    ELSE s.config.defaultText

\* MouseStalker.handlePointerOver throws on a new target: at
\* this.container.classList when the container is null or undefined, at
\* this.textEl.textContent when it shows a stalker without text element,
\* and in setText.
MouseStalker_handlePointerOver_throws(s, el) ==
    /\ el \in StalkerTargets /\ s.activeTarget # el
    /\ \/ s.container \in {NULL, UNDEF}
       \/ ~s.isVisible /\ s.textEl \in {NULL, UNDEF}
       \/ s.isVisible /\ MouseStalker_setText_throws(s, StalkerTextOf(s, el))

\* MouseStalker.handlePointerOver; el is the element under the pointer and
\* event.target.closest(selector) is el itself when it matches.  The state
\* it leaves, also when it throws half way.
MouseStalker_handlePointerOver(s, el) ==
    IF el \notin StalkerTargets \/ s.activeTarget = el THEN s
    ELSE LET text == StalkerTextOf(s, el)
             s0 == [s EXCEPT !.activeTarget = el]
             s1 == [s0 EXCEPT !.isHover = TRUE]
         IN  IF s.container \in {NULL, UNDEF} THEN s0
             ELSE IF ~s1.isVisible
             THEN (IF s.textEl \in {NULL, UNDEF}
                   THEN [StalkerCancelText(StalkerShow(s1)) EXCEPT
                            !.currentText = text]
                   ELSE [StalkerCancelText(StalkerShow(s1)) EXCEPT
                            !.currentText = text, !.textContent = text,
                            !.hasText = (text # ""),
                            !.textOpacity = IF text # "" THEN "1" ELSE "0"])
             ELSE MouseStalker_setText(s1, text)

\* A variant of clearMouseStalker that hides the stalker in every mode.
MouseStalker_clearMouseStalker_hide(s) ==
    LET s1 == [s EXCEPT !.activeTarget = NULL]
        s2 == IF s1.config.alwaysVisible /\ s1.config.defaultText # ""
              THEN MouseStalker_setText(s1, s1.config.defaultText)
              ELSE MouseStalker_clearText(s1)
    IN  [StalkerHide(s2) EXCEPT !.hoverTimers = @ + 1]

\* MouseStalker.clearMouseStalker throws in setText or clearText, or else
\* at this.container.style or this.container.classList when the container
\* is null or undefined.
MouseStalker_clearMouseStalker_throws(s) ==
    \/ IF s.config.alwaysVisible /\ s.config.defaultText # ""
       THEN MouseStalker_setText_throws(s, s.config.defaultText)
       ELSE MouseStalker_clearText_throws(s)
    \/ s.container \in {NULL, UNDEF}

\* MouseStalker.clearMouseStalker: the state it leaves, also when it throws
\* half way.
MouseStalker_clearMouseStalker(s) ==
    LET useDefault == s.config.alwaysVisible /\ s.config.defaultText # ""
        textThrows == IF useDefault
                      THEN MouseStalker_setText_throws(s, s.config.defaultText)
                      ELSE MouseStalker_clearText_throws(s)
        s1 == [s EXCEPT !.activeTarget = NULL]
        s2 == IF useDefault
              THEN MouseStalker_setText(s1, s1.config.defaultText)
              ELSE MouseStalker_clearText(s1)
    IN  IF textThrows THEN s2
        ELSE IF ~s2.config.alwaysVisible
        THEN (IF s.container \in {NULL, UNDEF}
              THEN [s2 EXCEPT !.isVisible = FALSE]
              ELSE [StalkerHide(s2) EXCEPT !.hoverTimers = @ + 1])
        ELSE (IF s.container \in {NULL, UNDEF} THEN s2
              ELSE [s2 EXCEPT !.isHover = FALSE])

\* The 300 ms callback of clearMouseStalker throws at
\* this.container.classList when the container is null by then.
MouseStalker_hoverTimeout_throws(s) ==
    ~s.isVisible /\ s.activeTarget \in {NULL, UNDEF}
    /\ s.container \in {NULL, UNDEF}

MouseStalker_hoverTimeout(s) ==
    LET s1 == [s EXCEPT !.hoverTimers = @ - 1]
    IN  IF ~s.isVisible /\ s.activeTarget \in {NULL, UNDEF}
           /\ ~MouseStalker_hoverTimeout_throws(s)
        THEN [s1 EXCEPT !.isHover = FALSE]
        ELSE s1

\* MouseStalker.handlePointerOut throws where clearMouseStalker does.
MouseStalker_handlePointerOut_throws(s, relatedInside) ==
    /\ s.activeTarget \notin {NULL, UNDEF} /\ ~relatedInside
    /\ MouseStalker_clearMouseStalker_throws(s)

\* MouseStalker.handlePointerOut; relatedInside says that event.relatedTarget
\* is non-null and contained in the active target.
MouseStalker_handlePointerOut(s, relatedInside) ==
    IF s.activeTarget \in {NULL, UNDEF} THEN s
    ELSE IF relatedInside THEN s
    ELSE MouseStalker_clearMouseStalker(s)

\* MouseStalker.handlePointerLeave and MouseStalker.handleWindowBlur throw
\* at this.container.style, after clearing isVisible, when the container
\* is null or undefined.
MouseStalker_handlePointerLeave_throws(s) ==
    ~s.config.alwaysVisible /\ s.container \in {NULL, UNDEF}

\* MouseStalker.handlePointerLeave and MouseStalker.handleWindowBlur: the
\* state they leave, also when they throw.
MouseStalker_handlePointerLeave(s) ==
    IF s.config.alwaysVisible THEN s
    ELSE IF MouseStalker_handlePointerLeave_throws(s)
    THEN [s EXCEPT !.isVisible = FALSE]
    ELSE StalkerHide(s)

MouseStalker_handleWindowBlur(s) ==
    IF s.config.alwaysVisible THEN s
    ELSE IF MouseStalker_handlePointerLeave_throws(s)
    THEN [s EXCEPT !.isVisible = FALSE]
    ELSE StalkerHide(s)

\* ((p * 100) | 0) / 100: a coordinate cut to hundredths of a pixel.
StalkerRound(p) == TruncDiv(p, 10) * 10

\* MouseStalker.update throws at this.target[0] when the constructor never
\* assigned pos and target, and at this.container.style when the container
\* is null; in both cases only when the instance is enabled.
MouseStalker_update_throws(s) ==
    s.isEnabled /\ (~s.hasPos \/ s.container \in {NULL, UNDEF})

\* MouseStalker.update, the frame callback: the state it leaves, also when
\* it throws before or after the assignment to pos.
MouseStalker_update(s) ==
    IF ~s.isEnabled THEN s
    ELSE IF ~s.hasPos THEN s
    ELSE LET dx == s.target[1] - s.pos[1]
             dy == s.target[2] - s.pos[2]
         IN  IF Abs(dx) < MouseStalkerMinSpeed /\ Abs(dy) < MouseStalkerMinSpeed
             THEN (IF MouseStalker_update_throws(s)
                   THEN [s EXCEPT !.pos = s.target]
                   ELSE [s EXCEPT !.pos = s.target,
                                  !.transform = <<s.target[1], s.target[2]>>,
                                  !.isMoving = FALSE])
             ELSE LET x == s.pos[1] + TruncDiv(dx * MouseStalkerEase, 1000)
                      y == s.pos[2] + TruncDiv(dy * MouseStalkerEase, 1000)
                  IN  IF MouseStalker_update_throws(s)
                      THEN [s EXCEPT !.pos = <<x, y>>]
                      ELSE StalkerRequestFrame(
                             [s EXCEPT !.pos = <<x, y>>,
                                       !.transform =
                                          <<StalkerRound(x), StalkerRound(y)>>])

\* update as the callback of requestAnimationFrame(this.update).  The
\* constructor binds this.update only after its early returns: an
\* instance whose constructor returned early hands the method of the
\* prototype to the browser, which calls it with this undefined, and the
\* callback throws at this.isEnabled before it changes anything.
MouseStalker_frame_throws(s) ==
    s.state = "early" \/ MouseStalker_update_throws(s)

MouseStalker_frame(s) ==
    IF s.state = "early" THEN s ELSE MouseStalker_update(s)

\* MouseStalker.disable and MouseStalker.enable throw at
\* this.container.style when the container is null or undefined; enable
\* also throws at this.pos[0] = this.target[0] when the constructor never
\* assigned pos and target.
MouseStalker_disable_throws(s) == s.container \in {NULL, UNDEF}

MouseStalker_enable_throws(s) ==
    ~s.isEnabled /\ (s.container \in {NULL, UNDEF} \/ ~s.hasPos)

\* MouseStalker.disable: the state it leaves, also when it throws half way.
MouseStalker_disable(s) ==
    IF MouseStalker_disable_throws(s) THEN [s EXCEPT !.isEnabled = FALSE]
    ELSE StalkerCancelFrame([s EXCEPT !.isEnabled = FALSE, !.display = "none"])

\* A variant of enable that leaves pos where the stalker was paused.
MouseStalker_enable_noSnap(s) ==
    IF s.isEnabled THEN s
    ELSE IF s.container \in {NULL, UNDEF} THEN [s EXCEPT !.isEnabled = TRUE]
    ELSE IF ~s.hasPos THEN [s EXCEPT !.isEnabled = TRUE, !.display = "block"]
    ELSE MouseStalker_render(
            [s EXCEPT !.isEnabled = TRUE, !.display = "block"])

\* MouseStalker.enable: the state it leaves, also when it throws half way.
MouseStalker_enable(s) ==
    IF s.isEnabled THEN s
    ELSE IF s.container \in {NULL, UNDEF} THEN [s EXCEPT !.isEnabled = TRUE]
    ELSE IF ~s.hasPos THEN [s EXCEPT !.isEnabled = TRUE, !.display = "block"]
    ELSE MouseStalker_render(
            [s EXCEPT !.isEnabled = TRUE, !.display = "block",
                      !.pos = s.target])

\* MouseStalker.destroy.
MouseStalker_destroy(s) ==
    LET s1 == StalkerCancelFrame([s EXCEPT !.isEnabled = FALSE])
        s2 == IF s1.textTimer \in {NULL, UNDEF} THEN s1
              ELSE [s1 EXCEPT !.textJob = <<>>]
        s3 == MouseStalker_unbindEvents(s2)
    IN  [s3 EXCEPT !.attached = FALSE, !.container = NULL, !.textEl = NULL,
                   !.destroyed = TRUE]

(***************************************************************************)
(* TextReveal                                                              *)
(***************************************************************************)

\* Number of elements the TextReveal selector can match.
MaxRevealEls == 2

\* The instance before construction, on a page where nMatched elements
\* match the selector: the elements base + 1 .. base + nMatched.
TextRevealNone(nMatched) ==
    [state |-> "none", destroyed |-> FALSE,
     elements |-> UNDEF, observer |-> UNDEF,
     options |-> [once |-> FALSE, resetOnScrollUp |-> FALSE, effect |-> "fade"],
     \* the page
     nMatched |-> nMatched, base |-> 0,
     initialized |-> {},     \* elements carrying data-text-reveal-initialized
     split |-> {},           \* elements rebuilt as one span per character
     effectOf |-> {},        \* <<el, e>>: el has class js-text-reveal-effect-e
     inview |-> {},          \* elements carrying class is-inview
     observed |-> {}]        \* elements the IntersectionObserver observes

\* The elements document.querySelectorAll(selector) returns.
TextRevealEls(s) == (s.base + 1)..(s.base + s.nMatched)

\* TextReveal.init throws at this.elements.forEach after destroy() has set
\* elements to null.
TextReveal_init_throws(s) == s.elements \in {NULL, UNDEF}

\* A variant of init that ignores data-text-reveal-initialized.
TextReveal_init_noFlag(s) ==
    LET all == TextRevealEls(s)
    IN  [s EXCEPT !.initialized = @ \cup all,
                  !.split = @ \cup all,
                  !.effectOf = @ \cup { <<el, s.options.effect>> : el \in all },
                  !.observed = @ \cup all]

\* TextReveal.init: setupElement, splitText and observe for every element
\* not initialised before.
TextReveal_init(s) ==
    LET fresh == TextRevealEls(s) \ s.initialized
    IN  IF TextReveal_init_throws(s) THEN s
        ELSE
        [s EXCEPT !.initialized = @ \cup fresh,
                  !.split = @ \cup fresh,
                  !.effectOf = @ \cup { <<el, s.options.effect>> : el \in fresh },
                  !.observed = @ \cup fresh]

\* this.options and this.observer are undefined, because the constructor
\* returned before assigning them: a method throws a TypeError where it
\* reads a property of this.options.
TextReveal_throws(s) == s.observer \in {NULL, UNDEF}

\* TextReveal.setupElement for element el (the class js-text-reveal and the
\* aria-label, which nothing else reads, are left out): it throws at
\* this.options.effect, before it adds the effect class.
TextReveal_setupElement(s, el) ==
    IF TextReveal_throws(s) THEN s
    ELSE [s EXCEPT !.effectOf = @ \cup {<<el, s.options.effect>>}]

\* TextReveal.splitText throws in createCharSpan, at this.options.duration,
\* when the element still has a text node to split; the element is then
\* left as it was.
TextReveal_splitText_throws(s, el) == TextReveal_throws(s) /\ el \notin s.split

\* TextReveal.splitText for element el, which holds text.
TextReveal_splitText(s, el) ==
    IF TextReveal_splitText_throws(s, el) THEN s
    ELSE [s EXCEPT !.split = @ \cup {el}]

\* TextReveal.animateIn throws at this.options.once, after it has added
\* the class is-inview.
TextReveal_animateIn_throws(s, el) ==
    el \notin s.inview /\ TextReveal_throws(s)

\* TextReveal.animateIn and TextReveal.animateOut for element el; topNegative
\* says that entry.boundingClientRect.top < 0.  The state they leave, also
\* when they throw; animateOut throws at its first statement.
TextReveal_animateIn(s, el) ==
    IF el \in s.inview THEN s
    ELSE IF TextReveal_throws(s) THEN [s EXCEPT !.inview = @ \cup {el}]
    ELSE [s EXCEPT !.inview = @ \cup {el},
                   !.observed = IF s.options.once THEN @ \ {el} ELSE @]

TextReveal_animateOut(s, el, topNegative) ==
    IF TextReveal_throws(s) THEN s
    ELSE IF s.options.once \/ el \notin s.inview THEN s
    ELSE IF ~s.options.resetOnScrollUp /\ topNegative THEN s
    ELSE [s EXCEPT !.inview = @ \ {el}]

\* TextReveal.handleIntersect throws where animateIn and animateOut do.
TextReveal_handleIntersect_throws(s, el, isIntersecting) ==
    IF isIntersecting THEN TextReveal_animateIn_throws(s, el)
    ELSE TextReveal_throws(s)

\* TextReveal.handleIntersect for one entry.
TextReveal_handleIntersect(s, el, isIntersecting, topNegative) ==
    IF isIntersecting THEN TextReveal_animateIn(s, el)
    ELSE TextReveal_animateOut(s, el, topNegative)

\* The page as instance p has left it, seen by instance s: the attributes
\* and classes of the elements are those of the one document.
TextRevealOnPageOf(s, p) ==
    [s EXCEPT !.initialized = p.initialized, !.split = p.split,
              !.effectOf = p.effectOf, !.inview = p.inview]

\* new TextReveal(selector, options).
TextReveal_new(s) ==
    IF s.nMatched = 0
    THEN [s EXCEPT !.state = "early", !.elements = "NodeList"]
    ELSE TextReveal_init(
            [s EXCEPT !.state = "ready", !.elements = "NodeList",
                      !.observer = "IntersectionObserver"])

\* TextReveal.destroy throws at this.observer.disconnect when the
\* constructor returned before creating the observer.
TextReveal_destroy_throws(s) == s.observer \in {NULL, UNDEF}

\* TextReveal.destroy.
TextReveal_destroy(s) ==
    IF TextReveal_destroy_throws(s) THEN s
    ELSE [s EXCEPT !.observed = {}, !.elements = NULL, !.destroyed = TRUE]

(***************************************************************************)
(* ScrollProgressAnimation                                                 *)
(***************************************************************************)

\* Number of elements the item selector can match.
MaxScrollItems == 2

\* Largest number of ScrollTriggers an instance is let to hold.
MaxTriggers == 6

\* The instance before construction, on a page described by dom: whether
\* the container and the progress line exist, and the number of items.
ScrollProgressNone(dom) ==
    [state |-> "none",
     container |-> UNDEF, progress |-> UNDEF, items |-> 0,
     scrollTriggers |-> 0,
     \* the page
     hasContainer |-> dom.hasContainer, hasProgress |-> dom.hasProgress,
     nItems |-> dom.nItems]

\* new ScrollProgressAnimation(options).
ScrollProgress_new(s) ==
    [s EXCEPT !.state = "ready",
              !.container = IF s.hasContainer THEN "el" ELSE NULL,
              !.progress = IF s.hasProgress THEN "el" ELSE NULL,
              !.items = s.nItems, !.scrollTriggers = 0]

\* ScrollProgressAnimation.isValid.
ScrollProgress_isValid(s) ==
    s.container # NULL /\ s.progress # NULL /\ s.items > 0

\* ScrollProgressAnimation.animateProgress: one ScrollTrigger for the
\* progress line, whether or not the container and the line exist.
ScrollProgress_animateProgress(s) == [s EXCEPT !.scrollTriggers = @ + 1]

\* ScrollProgressAnimation.animateItems: one ScrollTrigger for every item.
ScrollProgress_animateItems(s) == [s EXCEPT !.scrollTriggers = @ + s.items]

\* ScrollProgressAnimation.init.
ScrollProgress_init(s) ==
    IF ~ScrollProgress_isValid(s) THEN s
    ELSE ScrollProgress_animateItems(ScrollProgress_animateProgress(s))

\* ScrollProgressAnimation.destroy.
ScrollProgress_destroy(s) == [s EXCEPT !.scrollTriggers = 0]

(***************************************************************************)
(* Pages and inputs                                                        *)
(***************************************************************************)

\* Pages for the slider: no container, a container without children, and a
\* container with two children of one pixel.
SliderDoms ==
    { [present |-> p, nChildren |-> n, offsetWidth |-> 1, cssGap |-> 0,
       scrollY |-> 0] : p \in BOOLEAN, n \in {0, 2} }

SliderDomOk(d) == ~d.present => d.nChildren = 0

SliderOptionSets ==
    { LoopSliderOptions(e, r, g) :
        e \in {"draggable", "scroll"}, r \in BOOLEAN, g \in {<<>>, <<1>>} }

\* Time steps between frames and between pointer events, in ticks.
DtSet == {0, 6, 8}
MoveDtSet == {0, 6, 60}

\* With two sliders: the ticks between a mousedown, or a mousemove, and
\* the pointer event before it.
PairDownDtSet == {0, 54}
PairMoveDtSet == {0, 6}

\* clientX of pointer events, window.scrollY and slide widths, in pixels.
PointerXs == {0, 4}
ScrollYs == {0, 120}
WidthSet == {1, 2}

\* Pages and options for the stalker.
StalkerEnvs ==
    { [reducedMotion |-> r, pointerFine |-> f, centre |-> <<1, 1>>] :
        r \in BOOLEAN, f \in BOOLEAN }

StalkerNones ==
    { MouseStalkerNone(e, av, dt) :
        e \in StalkerEnvs, av \in BOOLEAN, dt \in {"", "SCROLL"} }

\* Largest number of pointer-down events on the slider in a behaviour.
MaxDrags == 1

\* Largest number of pointer moves during drags in a behaviour.
MaxMoves == 2

\* clientX and clientY of pointer moves, in thousandths of a pixel: the
\* centre of the window and a point 0.15 px to its right.
PointerPts == {<<1000, 1000>>, <<1150, 1000>>}

\* Largest number of pending 300 ms callbacks of clearMouseStalker.
MaxHoverTimers == 1

\* Largest number of pending frame callbacks of the stalker that rafId no
\* longer names.
MaxOlderFrames == 1

ScrollDoms ==
    { [hasContainer |-> c, hasProgress |-> g, nItems |-> n] :
        c \in BOOLEAN, g \in BOOLEAN, n \in 0..MaxScrollItems }

\* The pages of a behaviour that constructs no accordion, slider, stalker,
\* text reveal or scroll progress.
NoSliderDom ==
    [present |-> FALSE, nChildren |-> 0, offsetWidth |-> 1, cssGap |-> 0,
     scrollY |-> 0]
NoStalker ==
    MouseStalkerNone([reducedMotion |-> TRUE, pointerFine |-> FALSE,
                      centre |-> <<1, 1>>], FALSE, "")
NoScrollDom == [hasContainer |-> FALSE, hasProgress |-> FALSE, nItems |-> 0]

\* No widget has been constructed.  The widgets share no state, so a
\* behaviour constructs one of them.
Idle ==
    /\ acc.state = "none" /\ ls.state = "none" /\ ms.state = "none"
    /\ tr.state = "none" /\ spa.state = "none"

\* The page holds the markup of widget w at most: the script of a page
\* constructs the widget the page is written for.
PageOf(w) ==
    /\ w # "Accordion" => accDom = AccEmptyPage
    /\ w # "LoopSlider" => ls = LoopSliderNone(NoSliderDom)
    /\ w # "MouseStalker" => ms = NoStalker
    /\ w # "TextReveal" => tr = TextRevealNone(0)
    /\ w # "ScrollProgressAnimation" => spa = ScrollProgressNone(NoScrollDom)

(***************************************************************************)
(* Construction and the public methods                                     *)
(*                                                                         *)
(* On a page without main() (pc = "none") a script constructs one widget   *)
(* and keeps the instance, so that it can call its methods, the event      *)
(* handlers among them.  main() constructs its six instances in order and  *)
(* keeps none of them: after it only the browser reaches them.             *)
(***************************************************************************)

NewAccordion ==
    /\ pc = "none" /\ Idle /\ PageOf("Accordion")
    /\ \E shouldOpenAll \in BOOLEAN :
          acc' = Accordion_new(accDom, shouldOpenAll)
    /\ UNCHANGED <<accDom, ls, ms, tr, spa, thrown, ls2, tr2, pc, calls>>

NewLoopSlider ==
    /\ pc = "none" /\ Idle /\ PageOf("LoopSlider")
    /\ \E o \in SliderOptionSets : ls' = LoopSlider_new(ls, o)
    /\ UNCHANGED <<accDom, acc, ms, tr, spa, thrown, ls2, tr2, pc, calls>>

NewMouseStalker ==
    /\ pc = "none" /\ Idle /\ PageOf("MouseStalker")
    /\ ms' = MouseStalker_new(ms)
    /\ UNCHANGED <<accDom, acc, ls, tr, spa, thrown, ls2, tr2, pc, calls>>

NewTextReveal ==
    /\ pc = "none" /\ Idle /\ PageOf("TextReveal")
    /\ tr' = TextReveal_new(tr)
    /\ UNCHANGED <<accDom, acc, ls, ms, spa, thrown, ls2, tr2, pc, calls>>

NewScrollProgress ==
    /\ pc = "none" /\ Idle /\ PageOf("ScrollProgressAnimation")
    /\ spa' = ScrollProgress_new(spa)
    /\ UNCHANGED <<accDom, acc, ls, ms, tr, thrown, ls2, tr2, pc, calls>>

Throw(cond, name) == IF cond THEN thrown \cup {name} ELSE thrown

\* Largest number of counted steps in a behaviour of the life-cycle
\* specification.
MaxCalls == 3

\* The page script holds the instance it constructed and goes on calling
\* its methods.  The calls of destroy(), of ScrollProgressAnimation.init()
\* and of the enable(), init() and disable() of the stalker are not
\* counted; every other call, and every callback the browser runs for the
\* page script or after main(), is a counted step.
Script == pc = "none" /\ calls < MaxCalls

\* The browser runs a callback: never while main() is running.
Browser == pc \in {"none", "done"} /\ calls < MaxCalls

CallLoopSliderDestroy ==
    /\ pc = "none" /\ ls.state # "none"
    /\ ls' = LoopSlider_destroy(ls)
    /\ thrown' = Throw(LoopSlider_destroy_throws(ls), "LoopSlider.destroy")
    /\ UNCHANGED <<accDom, acc, ms, tr, spa, ls2, tr2, pc, calls>>

CallStalkerEnable ==
    /\ pc = "none" /\ ms.state # "none"
    /\ ms.rafOlder < MaxOlderFrames \/ ~ms.rafLatest
    /\ ms' = MouseStalker_enable(ms)
    /\ thrown' = Throw(MouseStalker_enable_throws(ms), "MouseStalker.enable")
    /\ UNCHANGED <<accDom, acc, ls, tr, spa, ls2, tr2, pc, calls>>

CallStalkerInit ==
    /\ pc = "none" /\ ms.state # "none"
    /\ ms.rafOlder < MaxOlderFrames \/ ~ms.rafLatest
    /\ ms' = MouseStalker_init(ms)
    /\ thrown' = Throw(MouseStalker_init_throws(ms), "MouseStalker.init")
    /\ UNCHANGED <<accDom, acc, ls, tr, spa, ls2, tr2, pc, calls>>

CallStalkerDisable ==
    /\ pc = "none" /\ ms.state # "none"
    /\ ms' = MouseStalker_disable(ms)
    /\ thrown' = Throw(MouseStalker_disable_throws(ms), "MouseStalker.disable")
    /\ UNCHANGED <<accDom, acc, ls, tr, spa, ls2, tr2, pc, calls>>

CallStalkerDestroy ==
    /\ pc = "none" /\ ms.state # "none"
    /\ ms' = MouseStalker_destroy(ms)
    /\ UNCHANGED <<accDom, acc, ls, tr, spa, thrown, ls2, tr2, pc, calls>>

CallTextRevealDestroy ==
    /\ pc = "none" /\ tr.state # "none"
    /\ tr' = TextReveal_destroy(tr)
    /\ thrown' = Throw(TextReveal_destroy_throws(tr), "TextReveal.destroy")
    /\ UNCHANGED <<accDom, acc, ls, ms, spa, ls2, tr2, pc, calls>>

CallScrollProgressInit ==
    /\ pc = "none" /\ spa.state # "none"
    /\ spa.scrollTriggers + 1 + spa.items <= MaxTriggers
    /\ spa' = ScrollProgress_init(spa)
    /\ UNCHANGED <<accDom, acc, ls, ms, tr, thrown, ls2, tr2, pc, calls>>

CallScrollProgressDestroy ==
    /\ pc = "none" /\ spa.state # "none"
    /\ spa' = ScrollProgress_destroy(spa)
    /\ UNCHANGED <<accDom, acc, ls, ms, tr, thrown, ls2, tr2, pc, calls>>

\* Largest number of frame loops, and of calls of setupSlider, a slider is
\* let to have.
MaxLoops == 2

\* The texts a caller passes to MouseStalker.setText.
StalkerTexts == {"", "VIEW"}

\* The slider has room for the clones of one more call of setupSlider.
RoomForClones == ls.clones + 3 * ls.nSlides <= 3 * ls.nSlides * MaxLoops

\* A second call of init(): a new wrapper and clones, a new frame loop
\* beside the running one, the same listeners.
CallLoopSliderInit ==
    /\ Script /\ ls.state # "none"
    /\ ls.rafPending < MaxLoops /\ RoomForClones
    /\ ls' = LoopSlider_init(ls)
    /\ thrown' = Throw(LoopSlider_throws(ls), "LoopSlider.init")
    /\ UNCHANGED <<accDom, acc, ms, tr, spa, ls2, tr2, pc>>
    /\ calls' = calls + 1

CallLoopSliderSetupSlider ==
    /\ Script /\ ls.state # "none"
    /\ RoomForClones
    /\ ls' = LoopSlider_setupSlider(ls)
    /\ thrown' = Throw(LoopSlider_throws(ls),
                       "LoopSlider.setupSlider")
    /\ UNCHANGED <<accDom, acc, ms, tr, spa, ls2, tr2, pc>>
    /\ calls' = calls + 1

CallLoopSliderStartAutoScroll ==
    /\ Script /\ ls.state # "none"
    /\ ls.rafPending < MaxLoops
    /\ ls' = LoopSlider_startAutoScroll(ls)
    /\ thrown' = Throw(LoopSlider_throws(ls),
                       "LoopSlider.startAutoScroll")
    /\ UNCHANGED <<accDom, acc, ms, tr, spa, ls2, tr2, pc>>
    /\ calls' = calls + 1

CallLoopSliderSetupDraggable ==
    /\ Script /\ ls.state # "none"
    /\ ls' = LoopSlider_setupDraggable(ls)
    /\ thrown' = Throw(LoopSlider_throws(ls),
                       "LoopSlider.setupDraggable")
    /\ UNCHANGED <<accDom, acc, ms, tr, spa, ls2, tr2, pc>>
    /\ calls' = calls + 1

CallLoopSliderSetupResize ==
    /\ Script /\ ls.state # "none"
    /\ ls' = LoopSlider_setupResize(ls)
    /\ UNCHANGED <<accDom, acc, ms, tr, spa, thrown, ls2, tr2, pc>>
    /\ calls' = calls + 1

CallLoopSliderHandleResize ==
    /\ Script /\ ls.state # "none"
    /\ ls' = LoopSlider_handleResize(ls)
    /\ UNCHANGED <<accDom, acc, ms, tr, spa, thrown, ls2, tr2, pc>>
    /\ calls' = calls + 1

CallStalkerCreateStalker ==
    /\ Script /\ ms.state # "none"
    /\ ms' = MouseStalker_createStalker(ms)
    /\ thrown' = Throw(~ms.hasPos, "MouseStalker.createStalker")
    /\ UNCHANGED <<accDom, acc, ls, tr, spa, ls2, tr2, pc>>
    /\ calls' = calls + 1

CallStalkerBindEvents ==
    /\ Script /\ ms.state # "none"
    /\ ms' = MouseStalker_bindEvents(ms)
    /\ UNCHANGED <<accDom, acc, ls, tr, spa, thrown, ls2, tr2, pc>>
    /\ calls' = calls + 1

CallStalkerRender ==
    /\ Script /\ ms.state # "none"
    /\ ms.rafOlder < MaxOlderFrames \/ ~ms.rafLatest
    /\ ms' = MouseStalker_render(ms)
    /\ UNCHANGED <<accDom, acc, ls, tr, spa, thrown, ls2, tr2, pc>>
    /\ calls' = calls + 1

\* update() called by the page script, not as a frame callback: no pending
\* frame is used up.
CallStalkerUpdate ==
    /\ Script /\ ms.state # "none"
    /\ ms.rafOlder < MaxOlderFrames \/ ~ms.rafLatest
    /\ ms' = MouseStalker_update(ms)
    /\ thrown' = Throw(MouseStalker_update_throws(ms), "MouseStalker.update")
    /\ UNCHANGED <<accDom, acc, ls, tr, spa, ls2, tr2, pc>>
    /\ calls' = calls + 1

CallStalkerSetText(text) ==
    /\ Script /\ ms.state # "none"
    /\ ms' = MouseStalker_setText(ms, text)
    /\ thrown' = Throw(MouseStalker_setText_throws(ms, text),
                       "MouseStalker.setText")
    /\ UNCHANGED <<accDom, acc, ls, tr, spa, ls2, tr2, pc>>
    /\ calls' = calls + 1

CallStalkerClearText ==
    /\ Script /\ ms.state # "none"
    /\ ms' = MouseStalker_clearText(ms)
    /\ thrown' = Throw(MouseStalker_clearText_throws(ms),
                       "MouseStalker.clearText")
    /\ UNCHANGED <<accDom, acc, ls, tr, spa, ls2, tr2, pc>>
    /\ calls' = calls + 1

CallStalkerClearMouseStalker ==
    /\ Script /\ ms.state # "none"
    /\ ms.hoverTimers < MaxHoverTimers
    /\ ms' = MouseStalker_clearMouseStalker(ms)
    /\ thrown' = Throw(MouseStalker_clearMouseStalker_throws(ms),
                       "MouseStalker.clearMouseStalker")
    /\ UNCHANGED <<accDom, acc, ls, tr, spa, ls2, tr2, pc>>
    /\ calls' = calls + 1

CallTextRevealInit ==
    /\ Script /\ tr.state # "none"
    /\ tr' = TextReveal_init(tr)
    /\ thrown' = Throw(TextReveal_init_throws(tr), "TextReveal.init")
    /\ UNCHANGED <<accDom, acc, ls, ms, spa, ls2, tr2, pc>>
    /\ calls' = calls + 1

CallScrollAnimateProgress ==
    /\ Script /\ spa.state # "none"
    /\ spa.scrollTriggers + 1 <= MaxTriggers
    /\ spa' = ScrollProgress_animateProgress(spa)
    /\ UNCHANGED <<accDom, acc, ls, ms, tr, thrown, ls2, tr2, pc>>
    /\ calls' = calls + 1

CallScrollAnimateItems ==
    /\ Script /\ spa.state # "none"
    /\ spa.scrollTriggers + spa.items <= MaxTriggers
    /\ spa' = ScrollProgress_animateItems(spa)
    /\ UNCHANGED <<accDom, acc, ls, ms, tr, thrown, ls2, tr2, pc>>
    /\ calls' = calls + 1

\* toggle(item, allItems), open(item) and close(item) called by the page
\* script on item i of the page, with the items of its container.
OnPage(i) == accDom.items[i].container <= accDom.nContainers

CallAccordionToggle(i) ==
    /\ Script /\ acc.state # "none" /\ OnPage(i)
    /\ accDom' = [accDom EXCEPT
                    !.items = Accordion_toggle(@, i, acc.shouldOpenAll)]
    /\ UNCHANGED <<acc, ls, ms, tr, spa, thrown, ls2, tr2, pc>>
    /\ calls' = calls + 1

CallAccordionOpen(i) ==
    /\ Script /\ acc.state # "none" /\ OnPage(i)
    /\ accDom' = [accDom EXCEPT !.items[i] = Accordion_open(@)]
    /\ UNCHANGED <<acc, ls, ms, tr, spa, thrown, ls2, tr2, pc>>
    /\ calls' = calls + 1

CallAccordionClose(i) ==
    /\ Script /\ acc.state # "none" /\ OnPage(i)
    /\ accDom' = [accDom EXCEPT !.items[i] = Accordion_close(@)]
    /\ UNCHANGED <<acc, ls, ms, tr, spa, thrown, ls2, tr2, pc>>
    /\ calls' = calls + 1

\* A click on the trigger of item i, which carries a listener for every
\* run of init(): one, unless the page script has called init() again.
ClickTrigger(i) ==
    /\ acc.state = "ready"
    /\ i \in acc.bound
    /\ accDom' = [accDom EXCEPT
                    !.items = Accordion_click(@, i, acc.shouldOpenAll,
                                              acc.inits)]
    /\ acc' = [acc EXCEPT !.last = i]
    /\ UNCHANGED <<ls, ms, tr, spa, thrown, ls2, tr2, pc, calls>>

\* Largest number of runs of Accordion.init an accordion is let to have.
MaxInits == 2

\* A second call of init(): one more click listener on every trigger.
CallAccordionInit ==
    /\ Script /\ acc.state # "none"
    /\ acc.inits < MaxInits
    /\ acc' = [acc EXCEPT !.bound = Accordion_init(accDom), !.inits = @ + 1]
    /\ UNCHANGED <<accDom, ls, ms, tr, spa, thrown, ls2, tr2, pc>>
    /\ calls' = calls + 1

\* getGap() returns a number and changes nothing.
CallLoopSliderGetGap ==
    /\ Script /\ ls.state # "none"
    /\ thrown' = Throw(LoopSlider_throws(ls), "LoopSlider.getGap")
    /\ UNCHANGED <<accDom, acc, ls, ms, tr, spa, ls2, tr2, pc>>
    /\ calls' = calls + 1

CallLoopSliderUpdateDimensions ==
    /\ Script /\ ls.state # "none"
    /\ ls' = LoopSlider_updateDimensions(ls)
    /\ thrown' = Throw(LoopSlider_throws(ls), "LoopSlider.updateDimensions")
    /\ UNCHANGED <<accDom, acc, ms, tr, spa, ls2, tr2, pc>>
    /\ calls' = calls + 1

\* The pointer handlers called by the page script with an event object.
CallLoopSliderOnPointerDown(x) ==
    /\ Script /\ ls.state # "none"
    /\ ls.drags < MaxDrags
    /\ ls' = LoopSlider_onPointerDown(ls, x)
    /\ thrown' = Throw(LoopSlider_onPointerDown_throws(ls),
                       "LoopSlider.onPointerDown")
    /\ UNCHANGED <<accDom, acc, ms, tr, spa, ls2, tr2, pc>>
    /\ calls' = calls + 1

CallLoopSliderOnPointerMove(x, kt) ==
    /\ Script /\ ls.state # "none"
    /\ ls.moves < MaxMoves
    /\ ls' = LoopSlider_onPointerMove(ls, x, kt)
    /\ UNCHANGED <<accDom, acc, ms, tr, spa, thrown, ls2, tr2, pc>>
    /\ calls' = calls + 1

CallLoopSliderOnPointerUp ==
    /\ Script /\ ls.state # "none"
    /\ ls' = LoopSlider_onPointerUp(ls)
    /\ thrown' = Throw(LoopSlider_onPointerUp_throws(ls),
                       "LoopSlider.onPointerUp")
    /\ UNCHANGED <<accDom, acc, ms, tr, spa, ls2, tr2, pc>>
    /\ calls' = calls + 1

\* The browser runs the pending frame callback that this.animation names,
\* k ticks after the last run of its loop.
RunSliderFrame(k) ==
    /\ Browser /\ ls.animLive
    /\ ls' = LoopSlider_updatePosition([ls EXCEPT !.rafPending = @ - 1], k)
    /\ UNCHANGED <<accDom, acc, ms, tr, spa, thrown, ls2, tr2, pc>>
    /\ calls' = calls + 1

\* The browser runs the pending frame callback of a loop that
\* this.animation does not name, k ticks after the last run of that loop.
RunOtherSliderFrame(k, fresh) ==
    /\ Browser
    /\ IF fresh THEN ls.loopsFresh > 0 ELSE ls.loopsTimed > 0
    /\ ls' = LoopSlider_updatePosition(
                [LoopSlider_resume(ls, fresh) EXCEPT !.rafPending = @ - 1], k)
    /\ UNCHANGED <<accDom, acc, ms, tr, spa, thrown, ls2, tr2, pc>>
    /\ calls' = calls + 1

\* The frame callback of the second slider of main().
RunSliderFrame2(k) ==
    /\ Browser /\ ls2.animLive
    /\ ls2' = LoopSlider_updatePosition([ls2 EXCEPT !.rafPending = @ - 1], k)
    /\ UNCHANGED <<accDom, acc, ls, ms, tr, spa, thrown, tr2, pc>>
    /\ calls' = calls + 1

\* The oldest pending resize timeout expires: its callback throws in
\* updateDimensions when the constructor returned early.
RunResizeTimeout ==
    /\ Browser /\ ls.timeoutPending > 0
    /\ ls' = LoopSlider_resizeTimeout(ls)
    /\ thrown' = Throw(LoopSlider_throws(ls), "LoopSlider.handleResize timeout")
    /\ UNCHANGED <<accDom, acc, ms, tr, spa, ls2, tr2, pc>>
    /\ calls' = calls + 1

CallStalkerUnbindEvents ==
    /\ Script /\ ms.state # "none"
    /\ ms' = MouseStalker_unbindEvents(ms)
    /\ UNCHANGED <<accDom, acc, ls, tr, spa, thrown, ls2, tr2, pc>>
    /\ calls' = calls + 1

\* The event handlers of the stalker called by the page script with an
\* event object.
CallStalkerHandlePointerMove(pt) ==
    /\ Script /\ ms.state # "none"
    /\ ms.rafOlder < MaxOlderFrames \/ ~ms.rafLatest
    /\ ms' = MouseStalker_handlePointerMove(ms, pt)
    /\ thrown' = Throw(MouseStalker_handlePointerMove_throws(ms),
                       "MouseStalker.handlePointerMove")
    /\ UNCHANGED <<accDom, acc, ls, tr, spa, ls2, tr2, pc>>
    /\ calls' = calls + 1

CallStalkerHandlePointerOver(el) ==
    /\ Script /\ ms.state # "none"
    /\ ms' = MouseStalker_handlePointerOver(ms, el)
    /\ thrown' = Throw(MouseStalker_handlePointerOver_throws(ms, el),
                       "MouseStalker.handlePointerOver")
    /\ UNCHANGED <<accDom, acc, ls, tr, spa, ls2, tr2, pc>>
    /\ calls' = calls + 1

CallStalkerHandlePointerOut(relatedInside) ==
    /\ Script /\ ms.state # "none"
    /\ ms.hoverTimers < MaxHoverTimers
    /\ ms' = MouseStalker_handlePointerOut(ms, relatedInside)
    /\ thrown' = Throw(MouseStalker_handlePointerOut_throws(ms, relatedInside),
                       "MouseStalker.handlePointerOut")
    /\ UNCHANGED <<accDom, acc, ls, tr, spa, ls2, tr2, pc>>
    /\ calls' = calls + 1

CallStalkerHandlePointerLeave ==
    /\ Script /\ ms.state # "none"
    /\ ms' = MouseStalker_handlePointerLeave(ms)
    /\ thrown' = Throw(MouseStalker_handlePointerLeave_throws(ms),
                       "MouseStalker.handlePointerLeave")
    /\ UNCHANGED <<accDom, acc, ls, tr, spa, ls2, tr2, pc>>
    /\ calls' = calls + 1

CallStalkerHandleWindowBlur ==
    /\ Script /\ ms.state # "none"
    /\ ms' = MouseStalker_handleWindowBlur(ms)
    /\ thrown' = Throw(MouseStalker_handlePointerLeave_throws(ms),
                       "MouseStalker.handleWindowBlur")
    /\ UNCHANGED <<accDom, acc, ls, tr, spa, ls2, tr2, pc>>
    /\ calls' = calls + 1

\* The browser runs the frame callback that rafId names, or one requested
\* before it.
RunStalkerFrameLatest ==
    /\ Browser /\ ms.rafLatest
    /\ ms' = MouseStalker_frame([ms EXCEPT !.rafLatest = FALSE])
    /\ thrown' = Throw(MouseStalker_frame_throws(ms), "MouseStalker.update")
    /\ UNCHANGED <<accDom, acc, ls, tr, spa, ls2, tr2, pc>>
    /\ calls' = calls + 1

RunStalkerFrameOlder ==
    /\ Browser /\ ms.rafOlder > 0
    /\ ms' = MouseStalker_frame([ms EXCEPT !.rafOlder = @ - 1])
    /\ thrown' = Throw(MouseStalker_frame_throws(ms), "MouseStalker.update")
    /\ UNCHANGED <<accDom, acc, ls, tr, spa, ls2, tr2, pc>>
    /\ calls' = calls + 1

\* The 200 ms timeout of setText or clearText expires.  A timeout is
\* pending only while the text element exists: both methods throw before
\* setTimeout otherwise, and destroy() clears the timer.
RunStalkerTextTimeout ==
    /\ Browser /\ ms.textJob # <<>>
    /\ ms' = MouseStalker_textTimeout(ms)
    /\ UNCHANGED <<accDom, acc, ls, tr, spa, thrown, ls2, tr2, pc>>
    /\ calls' = calls + 1

\* A 300 ms timeout of clearMouseStalker expires.
RunStalkerHoverTimeout ==
    /\ Browser /\ ms.hoverTimers > 0
    /\ ms' = MouseStalker_hoverTimeout(ms)
    /\ thrown' = Throw(MouseStalker_hoverTimeout_throws(ms),
                       "MouseStalker.clearMouseStalker timeout")
    /\ UNCHANGED <<accDom, acc, ls, tr, spa, ls2, tr2, pc>>
    /\ calls' = calls + 1

\* The methods of TextReveal called by the page script for element el of
\* the document, which holds text.
CallTextRevealSetupElement(el) ==
    /\ Script /\ tr.state # "none"
    /\ tr' = TextReveal_setupElement(tr, el)
    /\ thrown' = Throw(TextReveal_throws(tr), "TextReveal.setupElement")
    /\ UNCHANGED <<accDom, acc, ls, ms, spa, ls2, tr2, pc>>
    /\ calls' = calls + 1

CallTextRevealSplitText(el) ==
    /\ Script /\ tr.state # "none"
    /\ tr' = TextReveal_splitText(tr, el)
    /\ thrown' = Throw(TextReveal_splitText_throws(tr, el),
                       "TextReveal.splitText")
    /\ UNCHANGED <<accDom, acc, ls, ms, spa, ls2, tr2, pc>>
    /\ calls' = calls + 1

\* createCharSpan(char, index) returns a span and changes nothing.
CallTextRevealCreateCharSpan ==
    /\ Script /\ tr.state # "none"
    /\ thrown' = Throw(TextReveal_throws(tr), "TextReveal.createCharSpan")
    /\ UNCHANGED <<accDom, acc, ls, ms, tr, spa, ls2, tr2, pc>>
    /\ calls' = calls + 1

CallTextRevealAnimateIn(el) ==
    /\ Script /\ tr.state # "none"
    /\ tr' = TextReveal_animateIn(tr, el)
    /\ thrown' = Throw(TextReveal_animateIn_throws(tr, el),
                       "TextReveal.animateIn")
    /\ UNCHANGED <<accDom, acc, ls, ms, spa, ls2, tr2, pc>>
    /\ calls' = calls + 1

CallTextRevealAnimateOut(el, topNegative) ==
    /\ Script /\ tr.state # "none"
    /\ tr' = TextReveal_animateOut(tr, el, topNegative)
    /\ thrown' = Throw(TextReveal_throws(tr), "TextReveal.animateOut")
    /\ UNCHANGED <<accDom, acc, ls, ms, spa, ls2, tr2, pc>>
    /\ calls' = calls + 1

\* handleIntersect(entries) called by the page script with one entry.
CallTextRevealHandleIntersect(el, isIntersecting, topNegative) ==
    /\ Script /\ tr.state # "none"
    /\ tr' = TextReveal_handleIntersect(tr, el, isIntersecting, topNegative)
    /\ thrown' = Throw(TextReveal_handleIntersect_throws(tr, el, isIntersecting),
                       "TextReveal.handleIntersect")
    /\ UNCHANGED <<accDom, acc, ls, ms, spa, ls2, tr2, pc>>
    /\ calls' = calls + 1

\* The observer of the first or of the second instance reports element el,
\* which it observes; the classes of the element are those of the one
\* document.
RunIntersect1(el, isIntersecting, topNegative) ==
    /\ Browser /\ el \in tr.observed
    /\ tr' = TextReveal_handleIntersect(tr, el, isIntersecting, topNegative)
    /\ tr2' = IF tr2.state = "none" THEN tr2 ELSE TextRevealOnPageOf(tr2, tr')
    /\ UNCHANGED <<accDom, acc, ls, ms, spa, thrown, ls2, pc>>
    /\ calls' = calls + 1

RunIntersect2(el, isIntersecting, topNegative) ==
    /\ Browser /\ el \in tr2.observed
    /\ tr2' = TextReveal_handleIntersect(tr2, el, isIntersecting, topNegative)
    /\ tr' = TextRevealOnPageOf(tr, tr2')
    /\ UNCHANGED <<accDom, acc, ls, ms, spa, thrown, ls2, pc>>
    /\ calls' = calls + 1

\* isValid() returns a boolean and refresh() calls ScrollTrigger.refresh():
\* neither changes the instance.
CallScrollIsValid ==
    /\ Script /\ spa.state # "none"
    /\ UNCHANGED <<accDom, acc, ls, ms, tr, spa, thrown, ls2, tr2, pc>>
    /\ calls' = calls + 1

CallScrollRefresh ==
    /\ Script /\ spa.state # "none"
    /\ UNCHANGED <<accDom, acc, ls, ms, tr, spa, thrown, ls2, tr2, pc>>
    /\ calls' = calls + 1

(***************************************************************************)
(* main()                                                                  *)
(***************************************************************************)

\* The options main() passes to the two sliders, merged with the defaults.
MainSliderOptions1 == LoopSliderOptions("scroll", TRUE, <<20>>)
MainSliderOptions2 == LoopSliderOptions("draggable", FALSE, <<20>>)

\* The options main() passes to the TextReveal on 'h2'.
MainRevealOptions2 ==
    [once |-> FALSE, resetOnScrollUp |-> FALSE, effect |-> "slide"]

\* The pages main() runs on: each slider container absent, empty or with
\* two children; any environment for the stalker; any scroll markup; no or
\* one h3 (element 1) and no or one h2 (element 2).
MainPage ==
    /\ accDom = AccEmptyPage /\ acc = AccNone
    /\ ls \in { LoopSliderNone(d) : d \in { x \in SliderDoms : SliderDomOk(x) } }
    /\ ls2 \in { LoopSliderNone(d) : d \in { x \in SliderDoms : SliderDomOk(x) } }
    /\ ms \in { MouseStalkerNone(e, FALSE, "") : e \in StalkerEnvs }
    /\ spa \in { ScrollProgressNone(d) : d \in ScrollDoms }
    /\ tr \in { TextRevealNone(n) : n \in 0..1 }
    /\ tr2 \in { [TextRevealNone(n) EXCEPT !.base = 1,
                                          !.options = MainRevealOptions2] :
                 n \in 0..1 }

MainSlider1 ==
    /\ pc = "start"
    /\ ls' = LoopSlider_new(ls, MainSliderOptions1)
    /\ pc' = "slider1"
    /\ UNCHANGED <<accDom, acc, ms, tr, spa, thrown, ls2, tr2, calls>>

MainSlider2 ==
    /\ pc = "slider1"
    /\ ls2' = LoopSlider_new(ls2, MainSliderOptions2)
    /\ pc' = "slider2"
    /\ UNCHANGED <<accDom, acc, ls, ms, tr, spa, thrown, tr2, calls>>

MainStalker ==
    /\ pc = "slider2"
    /\ ms' = MouseStalker_new(ms)
    /\ pc' = "stalker"
    /\ UNCHANGED <<accDom, acc, ls, tr, spa, thrown, ls2, tr2, calls>>

\* new ScrollProgressAnimation(options).init().
MainScrollProgress ==
    /\ pc = "stalker"
    /\ spa' = ScrollProgress_init(ScrollProgress_new(spa))
    /\ pc' = "scroll"
    /\ UNCHANGED <<accDom, acc, ls, ms, tr, thrown, ls2, tr2, calls>>

MainReveal1 ==
    /\ pc = "scroll"
    /\ tr' = TextReveal_new(tr)
    /\ tr2' = TextRevealOnPageOf(tr2, tr')
    /\ pc' = "reveal1"
    /\ UNCHANGED <<accDom, acc, ls, ms, spa, thrown, ls2, calls>>

MainReveal2 ==
    /\ pc = "reveal1"
    /\ tr2' = TextReveal_new(tr2)
    /\ tr' = TextRevealOnPageOf(tr, tr2')
    /\ pc' = "done"
    /\ UNCHANGED <<accDom, acc, ls, ms, spa, thrown, ls2, calls>>

\* The accordion pages of the life-cycle specification: the page without a
\* match, and the one-container pages of closed items with content.
LifeAccPages ==
    {AccEmptyPage} \cup
    { p \in AccPages :
        /\ AccPageOk(p) /\ p.nContainers = 1
        /\ \A i \in ItemIds : ~p.items[i].active /\ p.items[i].hasContent }

\* The page of one widget, before a script constructs it.
WidgetPage ==
    /\ acc = AccNone
    /\ ls2 = LoopSliderNone(NoSliderDom) /\ tr2 = TextRevealNone(0)
    /\ \/ /\ accDom \in LifeAccPages
          /\ ls = LoopSliderNone(NoSliderDom) /\ ms = NoStalker
          /\ tr = TextRevealNone(0) /\ spa = ScrollProgressNone(NoScrollDom)
       \/ /\ accDom = AccEmptyPage
          /\ ls \in { LoopSliderNone(d) : d \in { x \in SliderDoms : SliderDomOk(x) } }
          /\ ms = NoStalker
          /\ tr = TextRevealNone(0) /\ spa = ScrollProgressNone(NoScrollDom)
       \/ /\ accDom = AccEmptyPage
          /\ ls = LoopSliderNone(NoSliderDom) /\ ms \in StalkerNones
          /\ tr = TextRevealNone(0) /\ spa = ScrollProgressNone(NoScrollDom)
       \/ /\ accDom = AccEmptyPage
          /\ ls = LoopSliderNone(NoSliderDom) /\ ms = NoStalker
          /\ tr \in { TextRevealNone(n) : n \in 0..MaxRevealEls }
          /\ spa = ScrollProgressNone(NoScrollDom)
       \/ /\ accDom = AccEmptyPage
          /\ ls = LoopSliderNone(NoSliderDom) /\ ms = NoStalker
          /\ tr = TextRevealNone(0)
          /\ spa \in { ScrollProgressNone(d) : d \in ScrollDoms }

InitLife ==
    /\ thrown = {} /\ calls = 0
    /\ pc \in {"none", "start"}
    /\ IF pc = "none" THEN WidgetPage ELSE MainPage

NextLife ==
    \/ NewAccordion \/ NewLoopSlider \/ NewMouseStalker
    \/ NewTextReveal \/ NewScrollProgress
    \/ CallAccordionInit
    \/ \E i \in ItemIds : CallAccordionToggle(i)
    \/ \E i \in ItemIds : CallAccordionOpen(i)
    \/ \E i \in ItemIds : CallAccordionClose(i)
    \/ \E i \in ItemIds : ClickTrigger(i)
    \/ CallLoopSliderInit \/ CallLoopSliderSetupSlider
    \/ CallLoopSliderGetGap \/ CallLoopSliderUpdateDimensions
    \/ CallLoopSliderStartAutoScroll \/ CallLoopSliderSetupDraggable
    \/ CallLoopSliderSetupResize \/ CallLoopSliderHandleResize
    \/ \E x \in PointerXs : CallLoopSliderOnPointerDown(x)
    \/ \E x \in PointerXs, kt \in MoveDtSet : CallLoopSliderOnPointerMove(x, kt)
    \/ CallLoopSliderOnPointerUp
    \/ CallLoopSliderDestroy
    \/ \E k \in DtSet : RunSliderFrame(k)
    \/ \E k \in DtSet, fresh \in BOOLEAN : RunOtherSliderFrame(k, fresh)
    \/ \E k \in DtSet : RunSliderFrame2(k)
    \/ RunResizeTimeout
    \/ CallStalkerInit \/ CallStalkerCreateStalker \/ CallStalkerBindEvents
    \/ CallStalkerUnbindEvents
    \/ CallStalkerRender \/ CallStalkerUpdate
    \/ \E text \in StalkerTexts : CallStalkerSetText(text)
    \/ CallStalkerClearText \/ CallStalkerClearMouseStalker
    \/ \E pt \in PointerPts : CallStalkerHandlePointerMove(pt)
    \/ \E el \in StalkerElements : CallStalkerHandlePointerOver(el)
    \/ \E r \in BOOLEAN : CallStalkerHandlePointerOut(r)
    \/ CallStalkerHandlePointerLeave \/ CallStalkerHandleWindowBlur
    \/ CallStalkerEnable \/ CallStalkerDisable \/ CallStalkerDestroy
    \/ RunStalkerFrameLatest \/ RunStalkerFrameOlder
    \/ RunStalkerTextTimeout \/ RunStalkerHoverTimeout
    \/ CallTextRevealInit
    \/ \E el \in 1..MaxRevealEls : CallTextRevealSetupElement(el)
    \/ \E el \in 1..MaxRevealEls : CallTextRevealSplitText(el)
    \/ CallTextRevealCreateCharSpan
    \/ \E el \in 1..MaxRevealEls : CallTextRevealAnimateIn(el)
    \/ \E el \in 1..MaxRevealEls, t \in BOOLEAN : CallTextRevealAnimateOut(el, t)
    \/ \E el \in 1..MaxRevealEls, i \in BOOLEAN, t \in BOOLEAN :
          CallTextRevealHandleIntersect(el, i, t)
    \/ \E el \in 1..MaxRevealEls, i \in BOOLEAN, t \in BOOLEAN :
          RunIntersect1(el, i, t)
    \/ \E el \in 1..MaxRevealEls, i \in BOOLEAN, t \in BOOLEAN :
          RunIntersect2(el, i, t)
    \/ CallTextRevealDestroy
    \/ CallScrollProgressInit \/ CallScrollIsValid \/ CallScrollRefresh
    \/ CallScrollAnimateProgress \/ CallScrollAnimateItems
    \/ CallScrollProgressDestroy
    \/ MainSlider1 \/ MainSlider2 \/ MainStalker \/ MainScrollProgress
    \/ MainReveal1 \/ MainReveal2

\* A page script that constructs one widget and then calls the methods of
\* the instance, its event handlers included, in any order, while the
\* browser runs the frame callbacks, the timeouts and the observer
\* callbacks that are pending; or main(), followed by the callbacks it has
\* left pending.  User events on the listeners and time are the subject of
\* the specifications of the widgets in use.
SpecLife == InitLife /\ [][NextLife]_vars

\* The steps that construct an instance: a page script that constructs one
\* widget, or main().
NextConstruct ==
    \/ NewAccordion \/ NewLoopSlider \/ NewMouseStalker
    \/ NewTextReveal \/ NewScrollProgress
    \/ MainSlider1 \/ MainSlider2 \/ MainStalker \/ MainScrollProgress
    \/ MainReveal1 \/ MainReveal2

\* Construction alone: every page, every constructor, and nothing after it.
SpecConstruct == InitLife /\ [][NextConstruct]_vars

(***************************************************************************)
(* The accordion in use                                                    *)
(***************************************************************************)

InitAcc ==
    /\ accDom \in { p \in AccPages : AccPageOk(p) }
    /\ \E shouldOpenAll \in BOOLEAN : acc = Accordion_new(accDom, shouldOpenAll)
    /\ ls = LoopSliderNone(NoSliderDom) /\ ms = NoStalker
    /\ tr = TextRevealNone(0) /\ spa = ScrollProgressNone(NoScrollDom)
    /\ thrown = {} /\ pc = "none" /\ calls = 0
    /\ ls2 = LoopSliderNone(NoSliderDom) /\ tr2 = TextRevealNone(0)

NextAcc == \E i \in ItemIds : ClickTrigger(i)

SpecAcc == InitAcc /\ [][NextAcc]_vars

(***************************************************************************)
(* The slider in use                                                       *)
(***************************************************************************)

\* The browser runs the pending frame callback that this.animation names,
\* k ticks after the last run of its loop.
SliderFrame(k) ==
    /\ ls.animLive
    /\ ls' = LoopSlider_updatePosition([ls EXCEPT !.rafPending = @ - 1], k)
    /\ UNCHANGED <<accDom, acc, ms, tr, spa, thrown, ls2, tr2, pc, calls>>

\* The user scrolls the window to y.
SliderScroll(y) ==
    /\ ls.state = "ready"
    /\ y # ls.scrollY
    /\ ls' = [ls EXCEPT !.scrollY = y]
    /\ UNCHANGED <<accDom, acc, ms, tr, spa, thrown, ls2, tr2, pc, calls>>

\* The window is resized and the first slide becomes w pixels wide.
SliderResize(w) ==
    /\ ls.state = "ready"
    /\ ls' = IF "window.resize" \in ls.listeners
             THEN LoopSlider_handleResize([ls EXCEPT !.offsetWidth = w])
             ELSE [ls EXCEPT !.offsetWidth = w]
    /\ UNCHANGED <<accDom, acc, ms, tr, spa, thrown, ls2, tr2, pc, calls>>

\* The resize timeout expires.
SliderResizeTimeout ==
    /\ ls.timeoutPending > 0
    /\ ls' = LoopSlider_resizeTimeout(ls)
    /\ UNCHANGED <<accDom, acc, ms, tr, spa, thrown, ls2, tr2, pc, calls>>

SliderPointerDown(x) ==
    /\ "container.mousedown" \in ls.listeners
    /\ ls.drags < MaxDrags
    /\ ls' = LoopSlider_onPointerDown(ls, x)
    /\ UNCHANGED <<accDom, acc, ms, tr, spa, thrown, ls2, tr2, pc, calls>>

SliderPointerMove(x, kt) ==
    /\ "document.mousemove" \in ls.listeners
    /\ ls.moves < MaxMoves
    /\ ls' = LoopSlider_onPointerMove(ls, x, kt)
    /\ UNCHANGED <<accDom, acc, ms, tr, spa, thrown, ls2, tr2, pc, calls>>

SliderPointerUp ==
    /\ "document.mouseup" \in ls.listeners
    /\ ls' = LoopSlider_onPointerUp(ls)
    /\ UNCHANGED <<accDom, acc, ms, tr, spa, thrown, ls2, tr2, pc, calls>>

\* The state after new LoopSlider(selector, options) on a page with slides.
InitSliderWith(effect, gaps) ==
    /\ accDom = AccEmptyPage /\ acc = AccNone
    /\ \E d \in { x \in SliderDoms : x.present /\ x.nChildren > 0 },
          o \in { x \in SliderOptionSets : x.effect = effect /\ x.gap \in gaps } :
          ls = LoopSlider_new(LoopSliderNone(d), o)
    /\ ms = NoStalker
    /\ tr = TextRevealNone(0) /\ spa = ScrollProgressNone(NoScrollDom)
    /\ thrown = {} /\ pc = "none" /\ calls = 0
    /\ ls2 = LoopSliderNone(NoSliderDom) /\ tr2 = TextRevealNone(0)

InitSlider == InitSliderWith("draggable", {<<>>})

NextSlider ==
    \/ \E k \in DtSet : SliderFrame(k)
    \/ \E w \in WidthSet : SliderResize(w)
    \/ SliderResizeTimeout
    \/ \E x \in PointerXs : SliderPointerDown(x)
    \/ \E x \in PointerXs, kt \in MoveDtSet : SliderPointerMove(x, kt)
    \/ SliderPointerUp
    \/ CallLoopSliderDestroy

\* The slider with effect 'draggable'.
SpecSlider == InitSlider /\ [][NextSlider]_vars

\* A frame with a positive time step.
SliderFramePositive == \E k \in DtSet \ {0} : SliderFrame(k)

NextDrag ==
    \/ \E k \in DtSet : SliderFrame(k)
    \/ \E x \in PointerXs : SliderPointerDown(x)
    \/ \E x \in PointerXs, kt \in MoveDtSet : SliderPointerMove(x, kt)
    \/ SliderPointerUp
    \/ CallLoopSliderDestroy

\* The slider with effect 'draggable' in a window that is not resized and
\* a browser that keeps delivering frames: the callback requests the next
\* frame on every run, and time passes between frames.
SpecDragFair ==
    InitSlider /\ [][NextDrag]_vars /\ WF_vars(SliderFramePositive)

\* Largest time since the last resize event that is counted, in ticks.
MaxQuiet == 4

\* No resize timeout is due: time can pass and events can arrive.  A due
\* timeout runs before anything else happens.
NoTimeoutDue ==
    IF ls.timeoutLeft = <<>> THEN TRUE ELSE Head(ls.timeoutLeft) > 0

\* A resize event: the first slide becomes w pixels wide.
TimedResize(w) ==
    /\ "window.resize" \in ls.listeners
    /\ NoTimeoutDue
    /\ ls' = [LoopSlider_handleResize([ls EXCEPT !.offsetWidth = w])
                EXCEPT !.sinceResize = 0, !.burstUpdates = 0]
    /\ UNCHANGED <<accDom, acc, ms, tr, spa, thrown, ls2, tr2, pc, calls>>

\* One tick, 50 ms, passes.
TimePasses ==
    /\ ls.state = "ready"
    /\ NoTimeoutDue
    /\ ls.sinceResize < MaxQuiet
    /\ ls' = [ls EXCEPT !.timeoutLeft = [i \in DOMAIN @ |-> @[i] - 1],
                        !.sinceResize = @ + 1]
    /\ UNCHANGED <<accDom, acc, ms, tr, spa, thrown, ls2, tr2, pc, calls>>

\* The resize timeout that is due runs its callback.
TimedResizeTimeout ==
    /\ ls.timeoutLeft # <<>> /\ Head(ls.timeoutLeft) = 0
    /\ ls' = [LoopSlider_resizeTimeout(ls) EXCEPT !.burstUpdates = @ + 1]
    /\ UNCHANGED <<accDom, acc, ms, tr, spa, thrown, ls2, tr2, pc, calls>>

NextResize ==
    \/ \E w \in WidthSet : TimedResize(w)
    \/ TimePasses
    \/ TimedResizeTimeout
    \/ \E k \in DtSet : SliderFrame(k)
    \/ CallLoopSliderDestroy

\* The slider in a window that is resized, with the time between the
\* resize events and the expiry of the timeout counted in ticks.
SpecResize ==
    InitSliderWith("draggable", {<<>>, <<1>>}) /\ [][NextResize]_vars

InitScrollSlider == InitSliderWith("scroll", {<<>>})

NextScrollSlider ==
    \/ \E k \in DtSet : SliderFrame(k)
    \/ \E y \in ScrollYs : SliderScroll(y)
    \/ CallLoopSliderDestroy

\* The slider with effect 'scroll', on which dragging is disabled, in a
\* window that is scrolled and not resized.
SpecScrollSlider == InitScrollSlider /\ [][NextScrollSlider]_vars

(***************************************************************************)
(* The stalker in use                                                      *)
(***************************************************************************)

\* The browser runs the frame callback that rafId names.
StalkerFrameLatest ==
    /\ ms.rafLatest
    /\ ms' = MouseStalker_frame([ms EXCEPT !.rafLatest = FALSE])
    /\ thrown' = Throw(MouseStalker_frame_throws(ms), "MouseStalker.update")
    /\ UNCHANGED <<accDom, acc, ls, tr, spa, ls2, tr2, pc, calls>>

\* The browser runs a frame callback requested before the one rafId names.
StalkerFrameOlder ==
    /\ ms.rafOlder > 0
    /\ ms' = MouseStalker_frame([ms EXCEPT !.rafOlder = @ - 1])
    /\ thrown' = Throw(MouseStalker_frame_throws(ms), "MouseStalker.update")
    /\ UNCHANGED <<accDom, acc, ls, tr, spa, ls2, tr2, pc, calls>>

StalkerPointerMove(pt) ==
    /\ "document.pointermove" \in ms.listeners
    /\ ms.rafOlder < MaxOlderFrames \/ ~ms.rafLatest
    /\ ms' = MouseStalker_handlePointerMove(ms, pt)
    /\ UNCHANGED <<accDom, acc, ls, tr, spa, thrown, ls2, tr2, pc, calls>>

StalkerPointerOver(el) ==
    /\ "document.pointerover" \in ms.listeners
    /\ ms' = MouseStalker_handlePointerOver(ms, el)
    /\ UNCHANGED <<accDom, acc, ls, tr, spa, thrown, ls2, tr2, pc, calls>>

StalkerPointerOut(relatedInside) ==
    /\ "document.pointerout" \in ms.listeners
    /\ ms.hoverTimers < MaxHoverTimers
    /\ ms' = MouseStalker_handlePointerOut(ms, relatedInside)
    /\ UNCHANGED <<accDom, acc, ls, tr, spa, thrown, ls2, tr2, pc, calls>>

StalkerPointerLeave ==
    /\ "document.pointerleave" \in ms.listeners
    /\ ms' = MouseStalker_handlePointerLeave(ms)
    /\ UNCHANGED <<accDom, acc, ls, tr, spa, thrown, ls2, tr2, pc, calls>>

StalkerWindowBlur ==
    /\ "window.blur" \in ms.listeners
    /\ ms' = MouseStalker_handleWindowBlur(ms)
    /\ UNCHANGED <<accDom, acc, ls, tr, spa, thrown, ls2, tr2, pc, calls>>

\* The 200 ms timeout of setText or clearText expires.
StalkerTextTimeout ==
    /\ ms.textJob # <<>>
    /\ ms' = MouseStalker_textTimeout(ms)
    /\ UNCHANGED <<accDom, acc, ls, tr, spa, thrown, ls2, tr2, pc, calls>>

\* A 300 ms timeout of clearMouseStalker expires.
StalkerHoverTimeout ==
    /\ ms.hoverTimers > 0
    /\ ms' = MouseStalker_hoverTimeout(ms)
    /\ thrown' = Throw(MouseStalker_hoverTimeout_throws(ms),
                       "MouseStalker.clearMouseStalker timeout")
    /\ UNCHANGED <<accDom, acc, ls, tr, spa, ls2, tr2, pc, calls>>

\* The state after new MouseStalker(options) on a device with a fine
\* pointer and no reduced-motion preference.
InitStalker ==
    /\ accDom = AccEmptyPage /\ acc = AccNone
    /\ ls = LoopSliderNone(NoSliderDom)
    /\ \E n \in { x \in StalkerNones : ~x.reducedMotion /\ x.pointerFine } :
          ms = MouseStalker_new(n)
    /\ tr = TextRevealNone(0) /\ spa = ScrollProgressNone(NoScrollDom)
    /\ thrown = {} /\ pc = "none" /\ calls = 0
    /\ ls2 = LoopSliderNone(NoSliderDom) /\ tr2 = TextRevealNone(0)

NextStalker ==
    \/ StalkerFrameLatest
    \/ StalkerFrameOlder
    \/ \E pt \in PointerPts : StalkerPointerMove(pt)
    \/ \E el \in StalkerElements : StalkerPointerOver(el)
    \/ \E r \in BOOLEAN : StalkerPointerOut(r)
    \/ StalkerPointerLeave
    \/ StalkerWindowBlur
    \/ StalkerTextTimeout
    \/ StalkerHoverTimeout
    \/ CallStalkerEnable
    \/ CallStalkerDisable
    \/ CallStalkerDestroy

SpecStalker == InitStalker /\ [][NextStalker]_vars

NextStalkerPause ==
    \/ StalkerFrameLatest
    \/ StalkerFrameOlder
    \/ \E pt \in PointerPts : StalkerPointerMove(pt)
    \/ CallStalkerInit
    \/ CallStalkerEnable
    \/ CallStalkerDisable
    \/ CallStalkerDestroy

\* The stalker trailing the pointer on a page that calls init(), enable(),
\* disable() and destroy() in any order.
SpecStalkerPause == InitStalker /\ [][NextStalkerPause]_vars

\* The stalker in a browser whose timers expire: a pending 200 ms timeout
\* of setText or clearText runs unless it is cleared.
SpecStalkerFair ==
    InitStalker /\ [][NextStalker]_vars /\ WF_vars(StalkerTextTimeout)

(***************************************************************************)
(* Two instances of a widget on one page                                   *)
(***************************************************************************)

\* A mousedown on the container of the first or of the second slider: the
\* listener is registered on the container, so it reaches that instance.
\* Each slider takes up to MaxDrags of them, and the two MaxDrags + 1.
\* The mousedown comes kt ticks after the latest mousedown or mousemove:
\* the lastTime of the other slider, if that is dragging, falls kt ticks
\* further behind (kt is 0 where no slider reads it).
LastTimeLagAfter(s, kt) ==
    IF s.isDragging THEN s.lastTimeLag + kt ELSE s.lastTimeLag

PairPointerDown1(x, kt) ==
    /\ "container.mousedown" \in ls.listeners
    /\ ls.drags < MaxDrags /\ ls.drags + ls2.drags <= MaxDrags
    /\ ~ls2.isDragging => kt = 0
    /\ LastTimeLagAfter(ls2, kt) \in PairDownDtSet
    /\ ls' = LoopSlider_onPointerDown(ls, x)
    /\ ls2' = [ls2 EXCEPT !.lastTimeLag = LastTimeLagAfter(ls2, kt)]
    /\ UNCHANGED <<accDom, acc, ms, tr, spa, thrown, tr2, pc, calls>>

PairPointerDown2(x, kt) ==
    /\ "container.mousedown" \in ls2.listeners
    /\ ls2.drags < MaxDrags /\ ls.drags + ls2.drags <= MaxDrags
    /\ ~ls.isDragging => kt = 0
    /\ LastTimeLagAfter(ls, kt) \in PairDownDtSet
    /\ ls2' = LoopSlider_onPointerDown(ls2, x)
    /\ ls' = [ls EXCEPT !.lastTimeLag = LastTimeLagAfter(ls, kt)]
    /\ UNCHANGED <<accDom, acc, ms, tr, spa, thrown, tr2, pc, calls>>

\* A mousemove or a mouseup on the document: the listeners are registered
\* on the document, so the event reaches every instance that has one.
\* The mousemove comes kt ticks after the latest mousedown or mousemove,
\* and each instance measures the time since the lastTime it recorded,
\* which is one of MoveDtSet.
PairPointerMove(x, kt) ==
    /\ "document.mousemove" \in ls.listeners \cup ls2.listeners
    /\ ls.moves < MaxMoves /\ ls2.moves < MaxMoves
    /\ ls.lastTimeLag + kt \in MoveDtSet /\ ls2.lastTimeLag + kt \in MoveDtSet
    /\ ls' = IF "document.mousemove" \in ls.listeners
             THEN LoopSlider_onPointerMove(ls, x, ls.lastTimeLag + kt) ELSE ls
    /\ ls2' = IF "document.mousemove" \in ls2.listeners
              THEN LoopSlider_onPointerMove(ls2, x, ls2.lastTimeLag + kt)
              ELSE ls2
    /\ UNCHANGED <<accDom, acc, ms, tr, spa, thrown, tr2, pc, calls>>

PairPointerUp ==
    /\ "document.mouseup" \in ls.listeners \cup ls2.listeners
    /\ ls' = IF "document.mouseup" \in ls.listeners
             THEN LoopSlider_onPointerUp(ls) ELSE ls
    /\ ls2' = IF "document.mouseup" \in ls2.listeners
              THEN LoopSlider_onPointerUp(ls2) ELSE ls2
    /\ UNCHANGED <<accDom, acc, ms, tr, spa, thrown, tr2, pc, calls>>

\* destroy() by a page script that has kept its instances, which main()
\* does not.
PairDestroy1 ==
    /\ pc = "none" /\ ls.state = "ready"
    /\ ls' = LoopSlider_destroy(ls)
    /\ UNCHANGED <<accDom, acc, ms, tr, spa, thrown, ls2, tr2, pc, calls>>

PairDestroy2 ==
    /\ pc = "none" /\ ls2.state = "ready"
    /\ ls2' = LoopSlider_destroy(ls2)
    /\ UNCHANGED <<accDom, acc, ls, ms, tr, spa, thrown, tr2, pc, calls>>

\* new TextReveal(selector, options) for the first and for the second
\* instance; the attributes and classes it sets are those of the document.
PairNewReveal1 ==
    /\ tr.state = "none"
    /\ tr' = TextReveal_new(tr)
    /\ tr2' = TextRevealOnPageOf(tr2, tr')
    /\ UNCHANGED <<accDom, acc, ls, ms, spa, thrown, ls2, pc, calls>>

PairNewReveal2 ==
    /\ tr2.state = "none"
    /\ tr2' = TextReveal_new(tr2)
    /\ tr' = TextRevealOnPageOf(tr, tr2')
    /\ UNCHANGED <<accDom, acc, ls, ms, spa, thrown, ls2, pc, calls>>

\* The observer of an instance reports element el, which it observes.
PairIntersect1(el, isIntersecting, topNegative) ==
    /\ el \in tr.observed
    /\ tr' = TextReveal_handleIntersect(tr, el, isIntersecting, topNegative)
    /\ tr2' = TextRevealOnPageOf(tr2, tr')
    /\ UNCHANGED <<accDom, acc, ls, ms, spa, thrown, ls2, pc, calls>>

PairIntersect2(el, isIntersecting, topNegative) ==
    /\ el \in tr2.observed
    /\ tr2' = TextReveal_handleIntersect(tr2, el, isIntersecting, topNegative)
    /\ tr' = TextRevealOnPageOf(tr, tr2')
    /\ UNCHANGED <<accDom, acc, ls, ms, spa, thrown, ls2, pc, calls>>

PairRevealDestroy1 ==
    /\ pc = "none" /\ tr.state = "ready" /\ ~tr.destroyed
    /\ tr' = TextReveal_destroy(tr)
    /\ UNCHANGED <<accDom, acc, ls, ms, spa, thrown, ls2, tr2, pc, calls>>

PairRevealDestroy2 ==
    /\ pc = "none" /\ tr2.state = "ready" /\ ~tr2.destroyed
    /\ tr2' = TextReveal_destroy(tr2)
    /\ UNCHANGED <<accDom, acc, ls, ms, tr, spa, thrown, ls2, pc, calls>>

\* The options of the TextReveal instances of a page: the first instance
\* has effect 'fade' and the second 'slide'.
RevealOptionSets(effect) ==
    [once : BOOLEAN, resetOnScrollUp : BOOLEAN, effect : {effect}]

\* The state main() leaves on a page with both slider containers, one h3
\* (element 1) and one h2 (element 2), in any environment for the stalker,
\* without scroll markup or with all of it.
AfterMain ==
    /\ pc = "done"
    /\ \E d \in { x \in SliderDoms : x.present /\ x.nChildren > 0 } :
          /\ ls = LoopSlider_new(LoopSliderNone(d), MainSliderOptions1)
          /\ ls2 = LoopSlider_new(LoopSliderNone(d), MainSliderOptions2)
    /\ ms \in { MouseStalker_new(MouseStalkerNone(e, FALSE, "")) :
                 e \in StalkerEnvs }
    /\ spa \in { ScrollProgress_init(ScrollProgress_new(ScrollProgressNone(d))) :
                  d \in {NoScrollDom,
                         [hasContainer |-> TRUE, hasProgress |-> TRUE,
                          nItems |-> 1]} }
    /\ LET t1 == TextReveal_new(TextRevealNone(1))
           t2 == TextReveal_new(TextRevealOnPageOf(
                    [TextRevealNone(1) EXCEPT !.base = 1,
                                              !.options = MainRevealOptions2],
                    t1))
       IN  tr = TextRevealOnPageOf(t1, t2) /\ tr2 = t2

\* A page with two draggable sliders on containers of their own, a page
\* with two TextReveal instances still to be constructed, whose selectors
\* match the elements 1..n1 and 1..n2, or the page main() has run on.
InitPair ==
    /\ accDom = AccEmptyPage /\ acc = AccNone
    /\ thrown = {} /\ calls = 0
    /\ \/ /\ pc = "none"
          /\ ms = NoStalker /\ spa = ScrollProgressNone(NoScrollDom)
          /\ \E d \in { x \in SliderDoms : x.present /\ x.nChildren > 0 },
                o \in { x \in SliderOptionSets :
                           /\ x.gap = <<>> /\ x.effect = "draggable"
                           /\ ~x.reverse } :
                /\ ls = LoopSlider_new(LoopSliderNone(d), o)
                /\ ls2 = LoopSlider_new(LoopSliderNone(d), o)
          /\ tr = TextRevealNone(0) /\ tr2 = TextRevealNone(0)
       \/ /\ pc = "none"
          /\ ms = NoStalker /\ spa = ScrollProgressNone(NoScrollDom)
          /\ ls = LoopSliderNone(NoSliderDom) /\ ls2 = LoopSliderNone(NoSliderDom)
          /\ \E n1 \in 1..MaxRevealEls, n2 \in 0..MaxRevealEls,
                o1 \in RevealOptionSets("fade"),
                o2 \in RevealOptionSets("slide") :
                /\ tr = [TextRevealNone(n1) EXCEPT !.options = o1]
                /\ tr2 = [TextRevealNone(n2) EXCEPT !.options = o2]
       \/ AfterMain

NextPair ==
    \/ \E x \in PointerXs, kt \in PairDownDtSet : PairPointerDown1(x, kt)
    \/ \E x \in PointerXs, kt \in PairDownDtSet : PairPointerDown2(x, kt)
    \/ \E x \in PointerXs, kt \in PairMoveDtSet : PairPointerMove(x, kt)
    \/ PairPointerUp
    \/ PairDestroy1
    \/ PairDestroy2
    \/ PairNewReveal1
    \/ PairNewReveal2
    \/ \E el \in 1..MaxRevealEls, i \in BOOLEAN, t \in BOOLEAN :
          PairIntersect1(el, i, t)
    \/ \E el \in 1..MaxRevealEls, i \in BOOLEAN, t \in BOOLEAN :
          PairIntersect2(el, i, t)
    \/ PairRevealDestroy1
    \/ PairRevealDestroy2

\* Two sliders, or two TextReveal instances, on one page.
SpecPair == InitPair /\ [][NextPair]_vars

(***************************************************************************)
(* Properties of construction (SpecConstruct) and of methods (SpecLife)   *)
(***************************************************************************)

\* The widget of the behaviour was constructed while its target was absent.
AbsentTarget ==
    \/ acc.state = "early"
    \/ ls.state = "early"
    \/ ms.state = "early"
    \/ tr.state = "early"
    \/ spa.state = "ready" /\ ~ScrollProgress_isValid(spa)

\* The state of a slider, and of a TextReveal, whose constructor returned
\* early and that nothing has touched since.
EarlySliderUntouched(s) ==
    s.state = "early" =>
       /\ s.listeners = {}
       /\ s.rafPending = 0 /\ s.timeoutPending = 0
       /\ s.wrapper \in {NULL, UNDEF} /\ s.clones = 0
       /\ s.transform = <<>> /\ s.cursor = ""

EarlyRevealUntouched(s) ==
    s.state = "early" =>
       /\ s.observer = UNDEF /\ s.observed = {}
       /\ TextRevealEls(s) = {}

EarlyUntouched ==
    /\ acc.state = "early" =>
          /\ acc.bound = {} /\ acc.warned
          /\ accDom = AccEmptyPage
    /\ EarlySliderUntouched(ls) /\ EarlySliderUntouched(ls2)
    /\ EarlyRevealUntouched(tr) /\ EarlyRevealUntouched(tr2)
    /\ ms.state = "early" =>
          /\ ms.listeners = {}
          /\ ~ms.rafLatest /\ ms.rafOlder = 0
          /\ ms.textJob = <<>> /\ ms.hoverTimers = 0
          /\ ~ms.attached
          /\ ms.container \in {NULL, UNDEF} /\ ms.textEl \in {NULL, UNDEF}
          /\ ms.transform = <<>> /\ ms.opacity = "" /\ ms.display = ""

\* The steps that construct an instance.
Constructs ==
    \/ NewAccordion \/ NewLoopSlider \/ NewMouseStalker \/ NewTextReveal
    \/ MainSlider1 \/ MainSlider2 \/ MainStalker
    \/ MainReveal1 \/ MainReveal2

\* C1: a constructor that returns early is a no-op.  When a constructor
\* has returned, by a script of its own or in main(), every instance whose
\* constructor returned early (Accordion matching nothing, LoopSlider with
\* no container or no children, TextReveal matching nothing, MouseStalker
\* under reduced motion or a coarse pointer) has registered no listener and
\* no observer, has no timer and no animation frame pending, and has
\* created or changed no DOM node.  This is the work of the constructor:
\* a method the page script calls later on such an instance (init,
\* setupResize, handleResize, bindEvents, render, ...) does register,
\* schedule or create what it is written to.
C1_EarlyReturnIsNoOp ==
    [][Constructs =>
          /\ EarlyUntouched'
          /\ (tr.state = "none" /\ tr'.state = "early") =>
                 /\ tr'.initialized = tr.initialized /\ tr'.split = tr.split
                 /\ tr'.effectOf = tr.effectOf /\ tr'.inview = tr.inview
          /\ (tr2.state = "none" /\ tr2'.state = "early") =>
                 /\ tr2'.initialized = tr2.initialized /\ tr2'.split = tr2.split
                 /\ tr2'.effectOf = tr2.effectOf /\ tr2'.inview = tr2.inview]_vars

\* A LoopSlider was constructed on a container without children.
C1_Witness ==
    ls.state = "early" /\ ls.container = "el" /\ ls.nChildren = 0

\* C2: no public method throws on an instance constructed while its target
\* was absent.  For such an instance no call of LoopSlider.destroy,
\* MouseStalker.enable / disable / destroy, TextReveal.destroy or
\* ScrollProgressAnimation.init / destroy has ended in a TypeError.
C2_AbsentTargetNeverThrows == AbsentTarget => thrown = {}

(***************************************************************************)
(* Properties of the accordion (SpecAcc)                                   *)
(***************************************************************************)

\* The items of container c that carry the active class.
ActiveItems(items, c) ==
    { j \in ItemIds : items[j].container = c /\ items[j].active }

\* C3: with shouldOpenAll false, a click keeps a container with at most one
\* active item a container with at most one active item, and a click on an
\* inactive item leaves exactly that item active in its container.
C3_ExclusiveMode ==
    [][\A i \in ItemIds :
          (~acc.shouldOpenAll /\ ClickTrigger(i)) =>
             LET c == accDom.items[i].container
             IN  /\ Cardinality(ActiveItems(accDom.items, c)) <= 1
                    => Cardinality(ActiveItems(accDom'.items, c)) <= 1
                 /\ ~accDom.items[i].active
                    => ActiveItems(accDom'.items, c) = {i}]_vars

\* In exclusive mode the trigger of item 2 was clicked last, and item 2 is
\* the one active item of a container that holds several items.
C3_Witness ==
    /\ acc.state = "ready" /\ ~acc.shouldOpenAll /\ acc.last = 2
    /\ ActiveItems(accDom.items, accDom.items[2].container) = {2}
    /\ accDom.items[1].container = accDom.items[2].container

\* A click on item i flips the active class of item i, sets the aria-hidden
\* of its content to match, and changes no other item.
FlipsOnly(i) ==
    /\ accDom'.items[i].active = ~accDom.items[i].active
    /\ accDom.items[i].hasContent =>
          accDom'.items[i].ariaHidden =
             (IF accDom'.items[i].active THEN "false" ELSE "true")
    /\ \A j \in ItemIds \ {i} : accDom'.items[j] = accDom.items[j]

\* C4: with shouldOpenAll true, a click flips the active class and the
\* aria-hidden of the clicked item and leaves every other item unchanged,
\* and every item that has a trigger can be clicked, so that every subset
\* of the items that have a trigger is reachable as the set of open ones
\* among them.
C4_OpenAllFrame ==
    /\ [][\A i \in ItemIds :
             (acc.shouldOpenAll /\ ClickTrigger(i)) => FlipsOnly(i)]_vars
    /\ [](acc.state = "ready" /\ acc.shouldOpenAll =>
             \A i \in ItemIds :
                accDom.items[i].hasTrigger => ENABLED ClickTrigger(i))

\* With shouldOpenAll true the trigger of item 1 was clicked last and items
\* 1 and 2 of one container are open together.
C4_Witness ==
    /\ acc.state = "ready" /\ acc.shouldOpenAll /\ acc.last = 1
    /\ accDom.items[1].active /\ accDom.items[2].active
    /\ accDom.items[1].container = accDom.items[2].container

\* C4 as stated: with shouldOpenAll true every item can be flipped by a
\* click, so that every subset of the items is reachable.
C4_EverySubsetReachable ==
    acc.state = "ready" /\ acc.shouldOpenAll =>
       \A i \in ItemIds : ENABLED ClickTrigger(i)

(***************************************************************************)
(* Properties of the slider (SpecScrollSlider, SpecSlider, SpecDragFair,   *)
(* SpecResize)                                                             *)
(***************************************************************************)

\* C5: the automatic step keeps its direction.  With reverse false the
\* auto-scroll step of a frame never increases baseX, and with reverse true
\* it never decreases baseX, under any scroll movement.
C5_StepKeepsDirection ==
    ls.state = "ready" =>
       /\ ~ls.options.reverse => ls.autoStep <= 0
       /\ ls.options.reverse => ls.autoStep >= 0

\* A drag has been ended by onPointerUp and the slider is not destroyed.
Released == ls.drags > 0 /\ ~ls.isDragging /\ ~ls.destroyed

\* The automatic step of a frame dt ticks long, before the direction.
AutoMove(dt) == TruncDiv(Px(ls.options.speed) * dt, FrameRate)

\* C6: the slider returns to the automatic animation after a drag.  Once a
\* drag has ended, every frame with a positive time step applies the
\* auto-scroll step again, and unless a pointer-down or destroy() comes
\* first, the velocity eventually is at most 10 px/s in size and the drag
\* offset is absorbed into baseX (dragX = 0).
C6_ReturnsToAuto ==
    /\ [][\A k \in DtSet \ {0} :
             (Released /\ ls.lastFrameTime # NULL /\ SliderFrame(k)) =>
                /\ ls'.autoStep # 0
                /\ ls'.autoStep =
                      (IF ls.options.reverse THEN 1 ELSE -1)
                      * AutoMove(IF 10 * k > FrameRate THEN MaxDt ELSE k)]_vars
    /\ (Released ~>
          (\/ ls.isDragging \/ ls.destroyed
           \/ ls.dragX = 0 /\ Abs(ls.velocity) <= VelocityEps))

\* After a drag that moved the slides, the offset has been absorbed and the
\* automatic step has been applied.
C6_Witness ==
    /\ Released /\ ls.moves > 0
    /\ ls.dragX = 0 /\ ls.velocity = 0 /\ ls.lastDragX # 0
    /\ ls.autoStep # 0

\* C6 as stated: after a drag has ended, unless a pointer-down or destroy()
\* comes first, eventually dragX = 0 and velocity = 0.
C6_VelocityReachesZero ==
    Released ~>
       (\/ ls.isDragging \/ ls.destroyed
        \/ ls.dragX = 0 /\ ls.velocity = 0)

\* C7: the life cycle of the slider.  From init until destroy() exactly one
\* frame callback is pending, also during a drag; after destroy() no frame
\* and no resize timeout is pending and no listener is left, and no later
\* step changes baseX, dragX, velocity, isDragging or the transform.
C7_Lifecycle ==
    /\ [](ls.state = "ready" /\ ~ls.destroyed => ls.rafPending = 1)
    /\ [](ls.destroyed =>
             ls.rafPending = 0 /\ ls.timeoutPending = 0 /\ ls.listeners = {})
    /\ [][ls.destroyed =>
             /\ ls'.baseX = ls.baseX /\ ls'.dragX = ls.dragX
             /\ ls'.velocity = ls.velocity
             /\ ls'.isDragging = ls.isDragging
             /\ ls'.transform = ls.transform]_vars

\* destroy() was called during a drag, while a resize timeout was set.
C7_Witness ==
    /\ ls.destroyed /\ ls.isDragging /\ ls.dragX # 0
    /\ ls.resizeTimeout = "timer"

\* C14: the loop range.  With totalWidth > 0, every frame that renders
\* leaves finalX = baseX + dragX within [-2 * totalWidth, -totalWidth] and
\* writes it to the transform, whatever drag, inertia, resize or time step
\* came before; and in every state the loop correction would change baseX
\* by a multiple of totalWidth.
C14_LoopRange ==
    /\ [][\A k \in DtSet :
             (ls.lastFrameTime # NULL /\ ls.totalWidth > 0 /\ SliderFrame(k)) =>
                LET finalX == ls'.baseX + ls'.dragX
                IN  /\ finalX >= -(2 * ls'.totalWidth)
                    /\ finalX <= -ls'.totalWidth
                    /\ ls'.transform = <<ToFixed2(finalX)>>]_vars
    /\ [](ls.state = "ready" /\ ls.totalWidth > 0 =>
             (LoopSlider_loopCorrect(ls).baseX - ls.baseX) % ls.totalWidth = 0)

\* During a drag of four pixels to the right on a loop two pixels long a
\* frame has moved baseX back by more than one totalWidth and rendered.
C14_Witness ==
    /\ ls.state = "ready" /\ ls.isDragging
    /\ ls.totalWidth = Px(2) /\ ls.dragX = Px(4)
    /\ ls.baseX <= -Px(6)
    /\ ls.transform = <<ToFixed2(ls.baseX + ls.dragX)>>

\* C15: resize handling is debounced.  At most one resize timeout is
\* pending at any time.  After a resize event on a slider that is not
\* destroyed, for less than 150 ms one timeout is pending, due 150 ms after
\* that event, and updateDimensions has not been called; after more than
\* 150 ms no timeout is pending and updateDimensions has been called once.
C15_Debounced ==
    /\ ls.timeoutPending <= 1
    /\ (ls.resizeTimeout = "timer" /\ ~ls.destroyed) =>
          /\ ls.sinceResize < ResizeDelay =>
                /\ ls.timeoutLeft = <<ResizeDelay - ls.sinceResize>>
                /\ ls.burstUpdates = 0
          /\ ls.sinceResize = ResizeDelay =>
                \/ ls.timeoutLeft = <<0>> /\ ls.burstUpdates = 0
                \/ ls.timeoutLeft = <<>> /\ ls.burstUpdates = 1
          /\ ls.sinceResize > ResizeDelay =>
                ls.timeoutLeft = <<>> /\ ls.burstUpdates = 1

\* After a burst of resize events that ended with the first slide two
\* pixels wide, the one timeout has run: totalWidth is four pixels.
C15_Witness ==
    /\ ls.state = "ready" /\ ~ls.destroyed
    /\ ls.resizeTimeout = "timer" /\ ls.timeoutPending = 0
    /\ ls.sinceResize = ResizeDelay /\ ls.burstUpdates = 1
    /\ ls.offsetWidth = 2 /\ ls.totalWidth = Px(4)

(***************************************************************************)
(* Properties of the stalker (SpecStalker, SpecStalkerFair,                *)
(* SpecStalkerPause)                                                       *)
(***************************************************************************)

\* C8: with alwaysVisible false the stalker is shown only over a matching
\* element: isVisible implies that activeTarget is an element, and a
\* pointermove changes neither isVisible nor the opacity and visibility of
\* the container.
C8_ShownOnlyOverTarget ==
    /\ [](ms.state = "ready" /\ ~ms.config.alwaysVisible /\ ms.isVisible
             => ms.activeTarget \in StalkerTargets)
    /\ [][\A pt \in PointerPts :
             (~ms.config.alwaysVisible /\ StalkerPointerMove(pt)) =>
                /\ ms'.isVisible = ms.isVisible
                /\ ms'.opacity = ms.opacity
                /\ ms'.visibility = ms.visibility]_vars

\* With alwaysVisible false the stalker is shown over element A after the
\* pointer has moved.
C8_Witness ==
    /\ ms.state = "ready" /\ ~ms.config.alwaysVisible
    /\ ms.isVisible /\ ms.activeTarget = "A"
    /\ ms.target = <<1150, 1000>>

\* C9: with alwaysVisible true the stalker is never hidden: the container's
\* opacity stays '1' and its visibility 'visible', and isVisible, once
\* true, stays true.
C9_AlwaysVisibleNeverHidden ==
    /\ [](ms.state = "ready" /\ ms.config.alwaysVisible
             => ms.opacity = "1" /\ ms.visibility = "visible")
    /\ [][ms.config.alwaysVisible /\ ms.isVisible => ms'.isVisible]_vars

\* With alwaysVisible true the pointer has left a hovered element: nothing
\* is hovered, the text is on its way back, and the stalker is shown.
C9_Witness ==
    /\ ms.state = "ready" /\ ms.config.alwaysVisible
    /\ ms.isVisible /\ ms.activeTarget = NULL /\ ms.textJob # <<>>
    /\ ms.opacity = "1"

\* The text the stalker is to show: over a matching element its
\* data-mouse-stalker value, or defaultText when that is empty; over
\* nothing, defaultText when alwaysVisible is set and defaultText is not
\* empty, and no text otherwise.
DesiredText ==
    IF ms.activeTarget \in StalkerTargets
    THEN (IF DataMouseStalker(ms.activeTarget) # ""
          THEN DataMouseStalker(ms.activeTarget)
          ELSE ms.config.defaultText)
    ELSE IF ms.config.alwaysVisible /\ ms.config.defaultText # ""
    THEN ms.config.defaultText
    ELSE ""

\* C10: the text follows the hovered element.  Whatever text change was
\* pending, as long as the active target stays the same (a matching
\* element after pointerover, none after pointerout) and the stalker is
\* not destroyed, currentText and textContent eventually equal the text to
\* show.
C10_TextFollowsHover ==
    \A a \in StalkerTargets \cup {NULL} :
       (ms.state = "ready" /\ ms.activeTarget = a) ~>
          (\/ ms.activeTarget # a \/ ms.destroyed
           \/ ms.currentText = DesiredText /\ ms.textContent = DesiredText)

\* Over element B, which has no text of its own, the shown stalker has
\* taken defaultText by a text change that replaced the text of element A.
C10_Witness ==
    /\ ms.state = "ready" /\ ms.activeTarget = "B" /\ ms.isVisible
    /\ ms.config.defaultText = "SCROLL"
    /\ ms.currentText = "SCROLL" /\ ms.textContent = "SCROLL"
    /\ ~ms.config.alwaysVisible /\ ms.textOpacity = "1"

\* C11: disable() pauses and enable() resumes the stalker.  disable()
\* clears isEnabled, and only enable() or init() sets it again; while it is
\* false, that is between disable() and the next enable() or init(), no
\* frame callback changes pos or the container transform.  enable() on a
\* paused stalker that has its container sets pos to target, shows the
\* container and requests a frame; enable() and init() on an enabled
\* stalker change nothing and request no frame.
C11_PauseAndResume ==
    /\ [][(~ms.isEnabled /\ (StalkerFrameLatest \/ StalkerFrameOlder)) =>
             ms'.pos = ms.pos /\ ms'.transform = ms.transform]_vars
    /\ [][CallStalkerDisable => ~ms'.isEnabled]_vars
    /\ [][(~ms.isEnabled /\ ms'.isEnabled) =>
             (CallStalkerEnable \/ CallStalkerInit)]_vars
    /\ [][(/\ ms.state = "ready" /\ ~ms.isEnabled /\ ms.container # NULL
           /\ CallStalkerEnable) =>
             /\ ms'.pos = ms.target /\ ms'.isEnabled /\ ms'.display = "block"
             /\ ms'.rafLatest /\ thrown' = thrown]_vars
    /\ [][(ms.isEnabled /\ (CallStalkerEnable \/ CallStalkerInit)) =>
             ms' = ms /\ thrown' = thrown]_vars

\* The stalker was paused while it trailed the pointer and has been
\* resumed: pos is the pointer position and the transform still is where
\* the stalker was paused.
C11_Witness ==
    /\ ms.state = "ready" /\ ms.isEnabled /\ ms.display = "block"
    /\ ms.rafLatest
    /\ ms.pos = <<1150, 1000>> /\ ms.transform = <<1000, 1000>>

\* C11 as stated: init() on a stalker that the constructor has initialised
\* and destroy() has not disposed changes nothing and requests no frame.
C11_InitChangesNothing ==
    [][(ms.state = "ready" /\ ms.container # NULL /\ CallStalkerInit) =>
          ms' = ms]_vars

\* The fields of the instance and of its element, without the count of the
\* callbacks that the browser still holds.
StalkerFields(s) ==
    [s EXCEPT !.rafLatest = FALSE, !.rafOlder = 0, !.hoverTimers = 0]

\* C12: destroy() disposes the instance completely.  After destroy(), and
\* as long as the page calls no method that enables the instance again, the
\* five listeners are removed and the element is detached, and no frame or
\* timeout callback scheduled earlier changes a field or throws.
C12_DestroyDisposes ==
    /\ [](ms.destroyed /\ ~ms.isEnabled =>
             ms.listeners = {} /\ ~ms.attached)
    /\ [][(/\ ms.destroyed /\ ~ms.isEnabled
           /\ \/ StalkerFrameLatest \/ StalkerFrameOlder
              \/ StalkerTextTimeout \/ StalkerHoverTimeout) =>
             /\ StalkerFields(ms') = StalkerFields(ms)
             /\ thrown' = thrown]_vars

(***************************************************************************)
(* Properties of two instances on one page (SpecPair)                      *)
(***************************************************************************)

\* The elements an instance matched that carry the effect class of its
\* options.
OwnEffect(s) ==
    { el \in TextRevealEls(s) : <<el, s.options.effect>> \in s.effectOf }

\* The fields of the LoopSlider instance, without the time that has passed
\* since it recorded lastTime.
SliderFields(s) == [s EXCEPT !.lastTimeLag = 0]

\* C13: instances share the page and nothing else.  A mousedown on the
\* container of one slider starts a drag in that instance and changes no
\* field of the other; a document mousemove or mouseup changes no field of
\* an instance that is not dragging.  Of two TextReveal instances the one
\* constructed first splits and observes every element it matches, and
\* the one constructed second only the elements the first did not match:
\* no element is observed by both, and every initialised element carries
\* the effect class of one instance only.
C13_InstancesShareOnlyThePage ==
    /\ [][\A x \in PointerXs, kt \in PairDownDtSet :
             /\ PairPointerDown1(x, kt) =>
                   ls'.isDragging /\ SliderFields(ls2') = SliderFields(ls2)
             /\ PairPointerDown2(x, kt) =>
                   ls2'.isDragging /\ SliderFields(ls') = SliderFields(ls)]_vars
    /\ [][(PairPointerUp \/ \E x \in PointerXs, kt \in PairMoveDtSet :
                                PairPointerMove(x, kt)) =>
             /\ ~ls.isDragging => ls' = ls
             /\ ~ls2.isDragging => ls2' = ls2]_vars
    /\ [](tr.observed \cap tr2.observed = {})
    /\ [](\A el \in tr.initialized :
             Cardinality({ e \in {"fade", "slide"} :
                             <<el, e>> \in tr.effectOf }) = 1)
    /\ [][PairNewReveal1 =>
             /\ tr'.observed = TextRevealEls(tr) \ tr2.initialized
             /\ tr2'.observed = tr2.observed]_vars
    /\ [][PairNewReveal2 =>
             /\ tr2'.observed = TextRevealEls(tr2) \ tr.initialized
             /\ tr'.observed = tr.observed]_vars

\* Both TextReveal instances are constructed, the selector of the second
\* matches the element of the first and one more: each observes one
\* element, and the element of the first has been revealed.
C13_Witness ==
    /\ tr.state = "ready" /\ tr2.state = "ready"
    /\ tr.nMatched = 1 /\ tr2.nMatched = 2
    /\ tr.observed = {1} /\ tr2.observed = {2}
    /\ tr.options.effect = "fade" /\ tr2.options.effect = "slide"
    /\ tr.effectOf = {<<1, "fade">>, <<2, "slide">>}
    /\ tr2.inview = {1}

\* C13 as stated: each TextReveal instance splits and observes the elements
\* its selector matches as it would alone on the page.  Alone, an instance
\* that is constructed and not destroyed, with once false, observes every
\* element it matched, and each of them carries its effect class.
C13_EachRevealsAsAlone ==
    /\ (tr.state = "ready" /\ ~tr.destroyed /\ ~tr.options.once) =>
          tr.observed = TextRevealEls(tr) /\ OwnEffect(tr) = TextRevealEls(tr)
    /\ (tr2.state = "ready" /\ ~tr2.destroyed /\ ~tr2.options.once) =>
          tr2.observed = TextRevealEls(tr2) /\ OwnEffect(tr2) = TextRevealEls(tr2)

====
